---- MODULE Spec2Model ----
(***************************************************************************)
(* A model of the theme packaging and deployment pipeline of stencil-cli:  *)
(* the push workflow steps of lib/stencil-push.utils.js (src/unnamed/      *)
(* part_001) and the worker bundle builder lib/stencil-bundle-worker.js    *)
(* (src/unnamed/part_000).                                                 *)
(*                                                                         *)
(* Each component has its own specification over its own variables; the    *)
(* variables of the other components stay at their idle values.            *)
(***************************************************************************)
EXTENDS Integers, Sequences, FiniteSets, TLC

VARIABLES
    \* ---- variation selection (part_001, 266-343)
    vpc,            \* the step of the variation chain that runs next
    vsession,       \* the session object threaded through the steps
    vremote,        \* the variations the remote lists for the theme
    vcalls,         \* remote calls made so far
    vprompts,       \* interactive prompts shown so far
    vthrown,        \* the error a step threw, or Undef
    \* ---- upload and theme quota (part_001, 97-174)
    qpc,            \* the step of the quota chain that runs next
    qsession,       \* the session object threaded through the steps
    qcalls,         \* remote calls made so far
    qprompts,       \* interactive prompts shown so far
    qthrown,        \* the error a step threw, or Undef
    qdeleted,       \* the theme ids whose deletion the remote confirmed
    \* ---- job completion poll (part_001, 216-264)
    ppc,            \* "attempt", "sleeping", "done" or "failed"
    psession,       \* the session handed to the poll, then its result
    presponses,     \* what getJob answered, call by call
    pattempt,       \* async.retry's attempt counter
    pprogress,      \* the percentages handed to markJobProgressPercentage
    pcompleted,     \* how often "Theme Processing Finished" was printed
    pthrown,        \* the error the poll surfaced, or Undef
    \* ---- WorkerBundle.initBundle (part_000, 31-89)
    bpc,            \* position in the stage sequence, or "catch"/"rejected"/"returned"
    boptions,       \* this.options: dest and apiUrl
    blog,           \* the stages started so far, in order
    bdisk,          \* what exists under the output directory
    bhave,          \* the data obtained so far (templates, translations, ...)
    bverdict,       \* what the validator handed to its callback
    braised,        \* the error a stage raised, or Undef
    bconsole,       \* the 'failed -- ' lines written to the console
    bresult,        \* Undef, [resolved: path] or [rejected: error]
    \* ---- WorkerBundle._assembleTemplates (part_000, 104-176)
    tpc,            \* the statement of _assembleTemplates that runs next
    tfs,            \* the theme on disk: separator, templates, libraries
    tinternalList,  \* internalTemplatesList of line 105
    texternalLibs,  \* externalLibs of line 126
    tsettled,       \* res of line 137
    tallPartials,   \* allPartials of line 163
    tresults,       \* what async.map has collected, by index
    tlast,          \* the index of allPartials whose assembly finished last, 0 before any
    tret,           \* the returned map
    tthrown,        \* the error _assembleTemplates rejected with, or Undef
    \* ---- the static thirdParty helper module (part_000, 486-609)
    hpc,            \* "outer", "inner" or "exported"
    hmodules,       \* the modules table: what each group module defines
    hi,             \* i of the outer loop, from 1
    hk,             \* i of the inner loop, from 1
    hexported,      \* exportedHelpers
    hwarned,        \* the groups reported as 'Missing module:'
    \* ---- WorkerBundle._bundleWorkerWithEsbuild (part_000, 298-649)
    lpc,            \* "start", "linking" or "written"
    linstalled,     \* the helper package as installed
    lpending,       \* import specifiers still to resolve
    llinked,        \* the modules linked into worker.js so far
    \* ---- requestToApplyVariationWithRetrys (part_001, 345-381)
    apc,            \* "attempt", "sleeping", "done" or "failed"
    asession,       \* the session: applyTheme and variationId
    aoutcomes,      \* what each activateThemeByVariationId call came back with
    aattempt,       \* async.retry's attempt counter, from 1
    awarnings,      \* the 'Theme Activation Timed Out; Retrying...' lines
    aresult,        \* the session handed to the callback, or Undef
    athrown,        \* the error handed to the callback, or Undef
    \* ---- the first workflow steps (part_001, 24-95)
    spc,            \* the step that runs next, "returned" or "failed"
    ssession,       \* the session object threaded through the steps
    sran,           \* the steps that have run, in order
    sfetched,       \* what the discovery call of getStoreHash came back with
    sbuilds,        \* how each bundle.initBundle() call of generateBundle settled
    sobjects,       \* the session objects made so far, the last of them the current one
    sthrown,        \* the error a step threw, or Undef
    \* ---- package.json, worker template and assets (part_000, 190-204, 755-875)
    dpc,            \* "packageJson", "workerScript", "copyAssets" or "done"
    ddisk,          \* what the build finds on disk
    dswallowed,     \* the errors a catch block kept to itself, with the default
    ddependencies,  \* dependencies of the package.json written
    dworkerTemplate,\* where the worker template came from
    dcopied,        \* the entries _copyAssets has made under the output directory
    \* ---- WorkerBundle._generateStaticTemplates (part_000, 227-296)
    cpc,            \* "loop", "written" or "rejected"
    ctemplates,     \* Object.entries(templates): [name, data] in insertion order
    cindex,         \* the entry the loop is at, from 1
    cfunctions,     \* the const declarations appended to templateFunctions
    cexports,       \* templateExports
    cwarned,        \* the names console.warn reported as skipped
    clogged,        \* the names console.error reported
    cwritten,       \* the export mapping of the templates.js written, or Undef
    cthrown,        \* the error _generateStaticTemplates rejected with, or Undef
    \* ---- placeholder substitution of _generateWorkerScript (part_000, 206-216)
    wpc,            \* the replace call that runs next, "write" or "written"
    wdata,          \* translations, schema, configuration and options.apiUrl
    wscript,        \* the worker template as rewritten so far
    wsource,        \* the worker.source.js written, or Undef
    \* ---- the worker bundle command (bin/stencil-bundle-worker.js, 28-57)
    rpc,            \* where run() stands
    rcli,           \* cliOptions: dest and timeout
    rtheme,         \* whether the theme directory holds a config.json
    rstage,         \* how many stages of initBundle have completed
    rbundle,        \* how initBundle settled, or Undef while it runs
    relapsed,       \* seconds gone since initBundle was called
    rcaught,        \* the error the catch of run() received
    rconsole,       \* the lines printed
    rexit,          \* the exit code, or Undef
    \* ---- the fetch handler of the worker (templates/worker-entry.js, 106-206)
    kpc,            \* where the handler stands
    krequest,       \* the request: its pathname
    kupstream,      \* how the upstream answers a fetch
    ktemplate,      \* whether the precompiled template function returns or throws
    kfetched,       \* the upstream requests made
    krendered,      \* the template paths rendered
    kerr,           \* the error the catch block received
    kresponse,      \* the Response the handler returned, or Undef
    krejected       \* what the handler's promise rejected with, or Undef

varVars == <<vpc, vsession, vremote, vcalls, vprompts, vthrown>>
quotaVars == <<qpc, qsession, qcalls, qprompts, qthrown, qdeleted>>

pollVars == <<ppc, psession, presponses, pattempt, pprogress, pcompleted, pthrown>>

bundleVars == <<bpc, boptions, blog, bdisk, bhave, bverdict, braised, bconsole, bresult>>

tmplVars == <<tpc, tfs, tinternalList, texternalLibs, tsettled, tallPartials,
              tresults, tlast, tret, tthrown>>

helperVars == <<hpc, hmodules, hi, hk, hexported, hwarned>>

linkVars == <<lpc, linstalled, lpending, llinked>>

activationVars == <<apc, asession, aoutcomes, aattempt, awarnings, aresult, athrown>>

stepVars == <<spc, ssession, sran, sfetched, sbuilds, sobjects, sthrown>>

defaultVars == <<dpc, ddisk, dswallowed, ddependencies, dworkerTemplate, dcopied>>

compileVars == <<cpc, ctemplates, cindex, cfunctions, cexports, cwarned, clogged, cwritten, cthrown>>

scriptVars == <<wpc, wdata, wscript, wsource>>

runVars == <<rpc, rcli, rtheme, rstage, rbundle, relapsed, rcaught, rconsole, rexit>>

workerVars == <<kpc, krequest, kupstream, ktemplate, kfetched, krendered, kerr, kresponse, krejected>>

vars == <<varVars, quotaVars, pollVars, bundleVars, tmplVars, helperVars, linkVars, activationVars, stepVars, defaultVars, compileVars, scriptVars, runVars, workerVars>>

\* what a step of one component leaves alone: the other components
notVar == <<quotaVars, pollVars, bundleVars, tmplVars, helperVars, linkVars, activationVars, stepVars, defaultVars, compileVars, scriptVars, runVars, workerVars>>
notQuota == <<varVars, pollVars, bundleVars, tmplVars, helperVars, linkVars, activationVars, stepVars, defaultVars, compileVars, scriptVars, runVars, workerVars>>
notPoll == <<varVars, quotaVars, bundleVars, tmplVars, helperVars, linkVars, activationVars, stepVars, defaultVars, compileVars, scriptVars, runVars, workerVars>>
notBundle == <<varVars, quotaVars, pollVars, tmplVars, helperVars, linkVars, activationVars, stepVars, defaultVars, compileVars, scriptVars, runVars, workerVars>>
notTmpl == <<varVars, quotaVars, pollVars, bundleVars, helperVars, linkVars, activationVars, stepVars, defaultVars, compileVars, scriptVars, runVars, workerVars>>
notHelpers == <<varVars, quotaVars, pollVars, bundleVars, tmplVars, linkVars, activationVars, stepVars, defaultVars, compileVars, scriptVars, runVars, workerVars>>
notLink == <<varVars, quotaVars, pollVars, bundleVars, tmplVars, helperVars, activationVars, stepVars, defaultVars, compileVars, scriptVars, runVars, workerVars>>
notActivation == <<varVars, quotaVars, pollVars, bundleVars, tmplVars, helperVars, linkVars, stepVars, defaultVars, compileVars, scriptVars, runVars, workerVars>>
notSteps == <<varVars, quotaVars, pollVars, bundleVars, tmplVars, helperVars, linkVars, activationVars, defaultVars, compileVars, scriptVars, runVars, workerVars>>
notDefaults == <<varVars, quotaVars, pollVars, bundleVars, tmplVars, helperVars, linkVars, activationVars, stepVars, compileVars, scriptVars, runVars, workerVars>>
notCompile == <<varVars, quotaVars, pollVars, bundleVars, tmplVars, helperVars, linkVars, activationVars, stepVars, defaultVars, scriptVars, runVars, workerVars>>
notScript == <<varVars, quotaVars, pollVars, bundleVars, tmplVars, helperVars, linkVars, activationVars, stepVars, defaultVars, compileVars, runVars, workerVars>>
notRun == <<varVars, quotaVars, pollVars, bundleVars, tmplVars, helperVars, linkVars, activationVars, stepVars, defaultVars, compileVars, scriptVars, workerVars>>
notWorker == <<varVars, quotaVars, pollVars, bundleVars, tmplVars, helperVars, linkVars, activationVars, stepVars, defaultVars, compileVars, scriptVars, runVars>>

(***************************************************************************)
(* JavaScript values.  A value carries its type, so that === never compares *)
(* across types and truthiness is what the language defines.               *)
(***************************************************************************)
Undef == [t |-> "undefined"]
Bool(b) == [t |-> "bool", v |-> b]
Str(s) == [t |-> "str", v |-> s]

\* ToBoolean: undefined, false and the empty string are falsy.
Truthy(x) ==
    CASE x.t = "undefined" -> FALSE
      [] x.t = "bool" -> x.v
      [] x.t = "str" -> x.v # ""
      [] OTHER -> TRUE

\* a === b
StrictEq(a, b) == a.t = b.t /\ a = b

RECURSIVE SeqsUpTo(_, _)
\* the sequences over S of length at most n
SeqsUpTo(S, n) ==
    IF n = 0 THEN {<<>>}
    ELSE LET shorter == SeqsUpTo(S, n - 1)
         IN  shorter \cup {Append(s, x) : s \in shorter, x \in S}

Range(s) == {s[i] : i \in DOMAIN s}

\* Array.prototype.find over the positions that pass the test: the first of
\* them, or 0 for undefined
FirstIndex(matching) ==
    IF matching = {} THEN 0
    ELSE CHOOSE i \in matching : \A j \in matching : i <= j

(***************************************************************************)
(* Variation selection: promptUserWhetherToApplyTheme, getVariations,      *)
(* promptUserForVariation.                                                 *)
(***************************************************************************)
MaxVariations == 2

VariationNames == {"Light", "Dark", "Purple"}

\* the uuid the remote gives the variation of that name
UuidOf(name) == Str("uuid-" \o name)

Variation(name) == [name |-> Str(name), uuid |-> UuidOf(name)]

\* variation lists the remote may return: distinct names, in any order
VariationLists ==
    {[i \in DOMAIN s |-> Variation(s[i])] :
        s \in {q \in SeqsUpTo(VariationNames, MaxVariations) :
                    \A i, j \in DOMAIN q : i # j => q[i] # q[j]}}

\* -a/--activate [variationname]: absent, given bare, or given with a name;
\* a caller of the library may also pass false
ActivateValues ==
    {Undef, Bool(TRUE), Bool(FALSE), Str("")} \cup {Str(n) : n \in VariationNames}

InitialSession(activate) ==
    [activate |-> activate, applyTheme |-> Undef,
     variationId |-> Undef, variations |-> Undef]

Returned(s) == [thrown |-> Undef, session |-> s]
Threw(e, s) == [thrown |-> e, session |-> s]

\* the Error of line 310: its message ends with the names joined by ', '
InvalidVariationError(list) ==
    [name |-> "Error", message |-> "Invalid theme variation provided!",
     options |-> [i \in DOMAIN list |-> list[i].name]]

TypeErrorOf(what) == [name |-> "TypeError", message |-> what, options |-> <<>>]

\* line 305: the test that sends the flag to the name lookup
GetVariationsTakesNameBranch(activate) ==
    ~Truthy(activate) /\ ~StrictEq(activate, Undef)

\* a getVariations that leaves every choice to the prompt
GetVariationsAlwaysCarried(options, list) ==
    Returned([options EXCEPT !.variations = [t |-> "list", v |-> list]])

\* utils.getVariations, after the remote call returned `list`
GetVariations(options, list) ==
    LET activate == options.activate
        found == FirstIndex({i \in DOMAIN list : StrictEq(list[i].name, activate)})
    IN  IF GetVariationsTakesNameBranch(activate)
        THEN IF found = 0 \/ ~Truthy(list[found].uuid)
             THEN Threw(InvalidVariationError(list), options)
             ELSE Returned([options EXCEPT !.variationId = list[found].uuid])
        ELSE IF Truthy(activate)
        THEN IF Len(list) = 0
             THEN Threw(TypeErrorOf("Cannot read properties of undefined"), options)
             ELSE Returned([options EXCEPT !.variationId = list[1].uuid])
        ELSE Returned([options EXCEPT !.variations = [t |-> "list", v |-> list]])

VarStart ==
    /\ vpc = "promptUserWhetherToApplyTheme"
    /\ \E a \in ActivateValues : vsession = InitialSession(a)
    /\ vremote \in VariationLists
    /\ vcalls = <<>>
    /\ vprompts = <<>>
    /\ vthrown = Undef

\* utils.promptUserWhetherToApplyTheme: the flag decides, or the user is asked
PromptUserWhetherToApplyTheme ==
    /\ vpc = "promptUserWhetherToApplyTheme"
    /\ IF Truthy(vsession.activate)
       THEN /\ vsession' = [vsession EXCEPT !.applyTheme = Bool(TRUE)]
            /\ UNCHANGED vprompts
       ELSE \E answer \in BOOLEAN :
            /\ vsession' = [vsession EXCEPT !.applyTheme = Bool(answer)]
            /\ vprompts' = Append(vprompts, "applyTheme")
    /\ vpc' = "getVariations"
    /\ UNCHANGED <<vremote, vcalls, vthrown>>
    /\ UNCHANGED notVar

\* utils.getVariations
GetVariationsStep ==
    /\ vpc = "getVariations"
    /\ IF ~Truthy(vsession.applyTheme)
       THEN /\ vpc' = "promptUserForVariation"
            /\ UNCHANGED <<vsession, vcalls, vthrown>>
       ELSE LET r == GetVariations(vsession, vremote)
            IN  /\ vcalls' = Append(vcalls, "getVariationsByThemeId")
                /\ vsession' = r.session
                /\ vthrown' = r.thrown
                /\ vpc' = IF r.thrown = Undef THEN "promptUserForVariation"
                                              ELSE "failed"
    /\ UNCHANGED <<vremote, vprompts>>
    /\ UNCHANGED notVar

\* utils.promptUserForVariation: asks only when a variation is still to choose
PromptUserForVariation ==
    /\ vpc = "promptUserForVariation"
    /\ IF ~Truthy(vsession.applyTheme) \/ Truthy(vsession.variationId)
       THEN /\ vpc' = "requestToApplyVariation"
            /\ UNCHANGED <<vsession, vprompts, vthrown>>
       ELSE IF vsession.variations.t # "list"
       THEN /\ vthrown' = TypeErrorOf("Cannot read properties of undefined")
            /\ vpc' = "failed"
            /\ UNCHANGED <<vsession, vprompts>>
       ELSE /\ vprompts' = Append(vprompts, "variationId")
            /\ vpc' = "requestToApplyVariation"
            /\ UNCHANGED vthrown
            /\ \/ \E i \in DOMAIN vsession.variations.v :
                    vsession' = [vsession EXCEPT
                                    !.variationId = vsession.variations.v[i].uuid]
               \/ /\ vsession.variations.v = <<>>
                  /\ UNCHANGED vsession
    /\ UNCHANGED <<vremote, vcalls>>
    /\ UNCHANGED notVar

\* a requestToApplyVariation that activates whatever the user answered
AppliesAnyway(options) == TRUE

\* line 371: if (options.applyTheme)
AppliesTheme(options) == Truthy(options.applyTheme)

\* utils.requestToApplyVariation (363-381), one run of it: the activation is
\* requested if the theme is to be applied, and options is returned
RequestToApplyVariationStep ==
    /\ vpc = "requestToApplyVariation"
    /\ IF ~AppliesTheme(vsession)
       THEN /\ vpc' = "notifyUserOfCompletion"
            /\ UNCHANGED <<vcalls, vthrown>>
       ELSE /\ vcalls' = Append(vcalls, "activateThemeByVariationId")
            /\ \/ /\ vpc' = "notifyUserOfCompletion"
                  /\ UNCHANGED vthrown
               \/ /\ vthrown' = [name |-> "VariationActivationTimeoutError",
                                message |-> "timed out", options |-> <<>>]
                  /\ vpc' = "failed"
    /\ UNCHANGED <<vsession, vremote, vprompts>>
    /\ UNCHANGED notVar

VarNext ==
    \/ PromptUserWhetherToApplyTheme
    \/ GetVariationsStep
    \/ PromptUserForVariation
    \/ RequestToApplyVariationStep

(***************************************************************************)
(* Upload and theme quota: uploadBundle, promptUserToDeleteThemesIfNecessary *)
(***************************************************************************)
MaxThemes == 3
MaxStamp == 2

List(s) == [t |-> "list", v |-> s]

\* new Date(iso).valueOf(): milliseconds since the epoch of a day stamp
DateValueOf(day) == day * 86400000

ThemeUuid(i) == Str("theme-" \o ToString(i))

\* a theme record of the remote's list, at position i of that list
Theme(i, private, active, day) ==
    [uuid |-> ThemeUuid(i), is_private |-> private, is_active |-> active,
     updated_at |-> day]

ThemeShapes == [is_private : BOOLEAN, is_active : BOOLEAN, updated_at : 1..MaxStamp]

ThemeLists ==
    {[i \in DOMAIN s |-> Theme(i, s[i].is_private, s[i].is_active, s[i].updated_at)] :
        s \in SeqsUpTo(ThemeShapes, MaxThemes)}

\* line 143: the themes that may be deleted
IsDeletable(theme) == theme.is_private /\ ~theme.is_active

\* lines 144-147: the projection the reduce runs over
StampOf(theme) == [uuid |-> theme.uuid, updated_at |-> DateValueOf(theme.updated_at)]

\* line 148: the reducer, (prev, current) => ...
OlderOfFirstWins(prev, current) ==
    IF prev.updated_at <= current.updated_at THEN prev ELSE current

OlderOf(prev, current) ==
    IF prev.updated_at < current.updated_at THEN prev ELSE current

RECURSIVE ReduceFrom(_, _, _)
\* Array.prototype.reduce without an initial value, from index i on
ReduceFrom(s, i, acc) ==
    IF i > Len(s) THEN acc ELSE ReduceFrom(s, i + 1, OlderOf(acc, s[i]))

QuotaSession(themes, deleteOldest) ==
    [themes |-> List(themes), deleteOldest |-> deleteOldest,
     bundleZipPath |-> Str("bundle.zip"), jobId |-> Undef,
     themeLimitReached |-> Undef, themeIdsToDelete |-> Undef]

\* utils.promptUserToDeleteThemesIfNecessary with deleteOldest set (141-151)
DeleteOldest(options) ==
    LET candidates == SelectSeq(options.themes.v, IsDeletable)
        stamps == [i \in DOMAIN candidates |-> StampOf(candidates[i])]
    IN  IF stamps = <<>>
        THEN Threw(TypeErrorOf("Reduce of empty array with no initial value"),
                   options)
        ELSE Returned([options EXCEPT !.themeIdsToDelete =
                        List(<<ReduceFrom(stamps, 2, stamps[1]).uuid>>)])

QuotaStart ==
    /\ qpc = "uploadBundle"
    /\ \E themes \in ThemeLists, deleteOldest \in {Undef, Bool(TRUE)} :
            qsession = QuotaSession(themes, deleteOldest)
    /\ qcalls = <<>>
    /\ qprompts = <<>>
    /\ qthrown = Undef
    /\ qdeleted = {}

\* an upload result that keeps the remote's quota flag as it came
UploadResultAsAnswered(options, jobId, limit) ==
    [options EXCEPT !.jobId = jobId, !.themeLimitReached = limit]

\* the object returned at lines 112-116: the session with the job id and
\* !!result.themeLimitReached written over it
UploadResult(options, jobId, limit) ==
    [options EXCEPT !.jobId = jobId, !.themeLimitReached = Bool(Truthy(limit))]

\* utils.uploadBundle: the remote answers with a job and the quota flag, or fails
UploadBundle ==
    /\ qpc = "uploadBundle"
    /\ qcalls' = Append(qcalls, [op |-> "postTheme", arg |-> qsession.bundleZipPath])
    /\ \/ \E limit \in {Undef, Bool(TRUE), Bool(FALSE)} :
            /\ qsession' = UploadResult(qsession, Str("job-1"), limit)
            /\ qpc' = "promptUserToDeleteThemesIfNecessary"
            /\ UNCHANGED qthrown
       \/ /\ qthrown' = [name |-> "ThemeUploadError", message |-> "upload failed",
                         options |-> <<>>]
          /\ qpc' = "failed"
          /\ UNCHANGED qsession
    /\ UNCHANGED <<qprompts, qdeleted>>
    /\ UNCHANGED notQuota

\* the checkbox prompt of lines 153-171: only enabled choices can be ticked, and
\* the validation accepts a non-empty selection only
EnabledChoices(themes) ==
    {i \in DOMAIN themes : ~(themes[i].is_active \/ ~themes[i].is_private)}

RECURSIVE PickInOrder(_, _, _)
PickInOrder(themes, picked, i) ==
    IF i > Len(themes) THEN <<>>
    ELSE (IF i \in picked THEN <<themes[i].uuid>> ELSE <<>>)
            \o PickInOrder(themes, picked, i + 1)

\* utils.promptUserToDeleteThemesIfNecessary
PromptUserToDeleteThemesIfNecessary ==
    /\ qpc = "promptUserToDeleteThemesIfNecessary"
    /\ IF ~Truthy(qsession.themeLimitReached)
       THEN /\ qpc' = "deleteThemesIfNecessary"
            /\ UNCHANGED <<qsession, qprompts, qthrown>>
       ELSE IF Truthy(qsession.deleteOldest)
       THEN LET r == DeleteOldest(qsession)
            IN  /\ qsession' = r.session
                /\ qthrown' = r.thrown
                /\ qpc' = IF r.thrown = Undef THEN "deleteThemesIfNecessary"
                                              ELSE "failed"
                /\ UNCHANGED qprompts
       ELSE /\ \E picked \in SUBSET EnabledChoices(qsession.themes.v) :
                /\ picked # {}
                /\ qsession' = [qsession EXCEPT !.themeIdsToDelete =
                                    List(PickInOrder(qsession.themes.v, picked, 1))]
            /\ qprompts' = Append(qprompts, "themeIdsToDelete")
            /\ qpc' = "deleteThemesIfNecessary"
            /\ UNCHANGED qthrown
    /\ UNCHANGED <<qcalls, qdeleted>>
    /\ UNCHANGED notQuota

\* a deletion step that goes on whether or not the deletions succeeded
SettledIgnoringFailures(ids, succeeded) == TRUE

\* await Promise.all(promises), line 193: fulfilled when every deletion is
AllSucceeded(ids, succeeded) == \A i \in DOMAIN ids : i \in succeeded

\* utils.deleteThemesIfNecessary (176-200): one deleteThemeById call per id of
\* themeIdsToDelete, all of them started before any is awaited
DeleteThemesIfNecessary ==
    /\ qpc = "deleteThemesIfNecessary"
    /\ IF ~Truthy(qsession.themeLimitReached)
       THEN /\ qpc' = "uploadBundleAgainIfNecessary"
            /\ UNCHANGED <<qcalls, qthrown, qdeleted>>
       ELSE LET ids == qsession.themeIdsToDelete.v
            IN  \E succeeded \in SUBSET DOMAIN ids :
                /\ qcalls' = qcalls \o
                      [i \in DOMAIN ids |-> [op |-> "deleteThemeById", arg |-> ids[i]]]
                /\ qdeleted' = {ids[i] : i \in succeeded}
                /\ IF AllSucceeded(ids, succeeded)
                   THEN /\ qpc' = "uploadBundleAgainIfNecessary"
                        /\ UNCHANGED qthrown
                   ELSE /\ qthrown' = [name |-> "ThemeDeletionError",
                                       message |-> "deletion failed",
                                       options |-> <<>>]
                        /\ qpc' = "failed"
    /\ UNCHANGED <<qsession, qprompts>>
    /\ UNCHANGED notQuota

\* utils.uploadBundleAgainIfNecessary (202-208): utils.uploadBundle once more
UploadBundleAgainIfNecessary ==
    /\ qpc = "uploadBundleAgainIfNecessary"
    /\ IF ~Truthy(qsession.themeLimitReached)
       THEN /\ qpc' = "notifyUserOfThemeUploadCompletion"
            /\ UNCHANGED <<qsession, qcalls, qthrown>>
       ELSE /\ qcalls' = Append(qcalls, [op |-> "postTheme",
                                         arg |-> qsession.bundleZipPath])
            /\ \/ \E limit \in {Undef, Bool(TRUE), Bool(FALSE)} :
                    /\ qsession' = UploadResult(qsession, Str("job-2"), limit)
                    /\ qpc' = "notifyUserOfThemeUploadCompletion"
                    /\ UNCHANGED qthrown
               \/ /\ qthrown' = [name |-> "ThemeUploadError",
                                  message |-> "upload failed", options |-> <<>>]
                  /\ qpc' = "failed"
                  /\ UNCHANGED qsession
    /\ UNCHANGED <<qprompts, qdeleted>>
    /\ UNCHANGED notQuota

QuotaNext ==
    \/ UploadBundle
    \/ PromptUserToDeleteThemesIfNecessary
    \/ DeleteThemesIfNecessary
    \/ UploadBundleAgainIfNecessary

(***************************************************************************)
(* Job completion poll: pollForJobCompletion is async.retryable around     *)
(* checkIfJobIsComplete.  async.retry starts with attempt = 1, runs the    *)
(* task, and on an error tests  attempt++ < times && errorFilter(err)  to  *)
(* decide between another attempt after the interval and the callback.     *)
(***************************************************************************)
MaxPending == 3

Percents == {10, 55, 90}

Infinity == [inf |-> TRUE, n |-> 0]
Finite(n) == [inf |-> FALSE, n |-> n]

\* attempt < times, for a times that may be Number.POSITIVE_INFINITY
LessThanTimes(attempt, times) == times.inf \/ attempt < times.n

\* a poll that gives up after a third attempt
ThreeTimes == Finite(3)

\* line 237
PollTimes == Infinity

\* what themeApiClient.getJob does: resolve with the job's result, reject with
\* the pending signal carrying the percentage as its message, or reject otherwise
JobComplete == [kind |-> "complete", percent |-> 100]
JobPending(p) == [kind |-> "pending", percent |-> p]
JobFailure == [kind |-> "error", percent |-> 0]

JobResponses(pendingSoFar) ==
    {JobComplete, JobFailure}
        \cup (IF pendingSoFar < MaxPending THEN {JobPending(p) : p \in Percents}
              ELSE {})

ErrorOfResponse(r) ==
    IF r.kind = "pending"
    THEN [name |-> "JobCompletionStatusCheckPendingError", message |-> r.percent]
    ELSE [name |-> "Error", message |-> 0]

\* utils.markJobProgressPercentage: one more update of the progress bar
MarkNothing(progress, percentComplete) == progress

MarkJobProgressPercentage(progress, percentComplete) ==
    Append(progress, percentComplete)

\* utils.markJobComplete
MarkJobComplete(progress) == MarkJobProgressPercentage(progress, 100)

\* an errorFilter that takes every error for a retry signal
RetryEveryJobError(err) == TRUE

\* the errorFilter of lines 229-236: is the error a retry signal
PollErrorFilter(err) == err.name = "JobCompletionStatusCheckPendingError"

PollSession ==
    [jobId |-> Str("job-1"), bundleZipPath |-> Str("bundle.zip"), themeId |-> Undef]

PollStart ==
    /\ ppc = "attempt"
    /\ psession = PollSession
    /\ presponses = <<>>
    /\ pattempt = 1
    /\ pprogress = <<>>
    /\ pcompleted = 0
    /\ pthrown = Undef

\* one run of checkIfJobIsComplete and async.retry's handling of its outcome
PollAttempt ==
    /\ ppc = "attempt"
    /\ \E r \in JobResponses(Len(SelectSeq(presponses,
                                  LAMBDA x : x.kind = "pending"))) :
        /\ presponses' = Append(presponses, r)
        /\ IF r.kind = "complete"
           THEN /\ pprogress' = MarkJobComplete(pprogress)
                /\ pcompleted' = pcompleted + 1
                /\ psession' = [psession EXCEPT !.themeId = Str("theme-new")]
                /\ ppc' = "done"
                /\ UNCHANGED <<pattempt, pthrown>>
           ELSE LET err == ErrorOfResponse(r)
                    again == LessThanTimes(pattempt, PollTimes)
                IN  /\ pattempt' = pattempt + 1
                    /\ UNCHANGED <<psession, pcompleted>>
                    /\ IF again /\ PollErrorFilter(err)
                       THEN /\ pprogress' =
                                  MarkJobProgressPercentage(pprogress, err.message)
                            /\ ppc' = "sleeping"
                            /\ UNCHANGED pthrown
                       ELSE /\ pthrown' = err
                            /\ ppc' = "failed"
                            /\ UNCHANGED pprogress
    /\ UNCHANGED notPoll

\* the 1000 ms interval of line 228 elapsed
PollInterval ==
    /\ ppc = "sleeping"
    /\ ppc' = "attempt"
    /\ UNCHANGED <<psession, presponses, pattempt, pprogress, pcompleted, pthrown>>
    /\ UNCHANGED notPoll

PollNext ==
    \/ PollAttempt
    \/ PollInterval

(***************************************************************************)
(* WorkerBundle.initBundle: one try block that awaits the stages one after *)
(* the other, and one catch that logs and rethrows.                        *)
(***************************************************************************)

\* the awaited calls of the try block in the order the spec's section 4.4 gives
StagesWithDirectoryAfterData ==
    <<"validate", "templates", "lang", "schema", "config", "mkdir",
      "packageJson", "install", "compile", "writeSource", "link", "unlinkSource",
      "assets", "wrangler">>

\* the awaited calls of the try block, lines 36-81, with those of
\* _generateWorkerScript (193-223) in the place of line 70
InitBundleStages ==
    <<"validate", "mkdir", "templates", "lang", "schema", "config",
      "packageJson", "install", "compile", "writeSource", "link", "unlinkSource",
      "assets", "wrangler">>

AtStage(name) == bpc = name

\* what follows the stage `name`: the next await, or the return of line 83
StageAfter(name) ==
    LET i == CHOOSE k \in DOMAIN InitBundleStages : InitBundleStages[k] = name
    IN  IF i = Len(InitBundleStages) THEN "returned" ELSE InitBundleStages[i + 1]

\* an error value: who raised it, and the message it carries (a thrown string
\* or a bare object carries none)
ErrorBy(origin, message) == [origin |-> origin, message |-> message]

StageErrors(name) ==
    {ErrorBy(name, Str(name \o " failed")), ErrorBy(name, Undef)}

\* line 39
OutputDir ==
    IF Truthy(boptions.dest) THEN boptions.dest ELSE Str("<theme>/worker-bundle")

\* the promise of _validateTheme (93-101): rejected when the validator's
\* callback got an error, resolved otherwise
ValidateThemeResolvesAnyway(err) == Undef

ValidateTheme(err) == IF err # Undef THEN err ELSE Undef

\* lines 85-87: what the catch block throws
RethrownWrapped(err) ==
    ErrorBy("initBundle",
            IF Truthy(err.message) THEN err.message ELSE Str("[object]"))

Rethrown(err) == err

\* line 85: the text that goes to the console
ErrorMessage(err) == IF Truthy(err.message) THEN err.message ELSE Str("[object]")

BundleOptions == [dest : {Undef, Str("out")}, apiUrl : {Undef, Str("https://store")}]

BundleStart ==
    /\ bpc = InitBundleStages[1]
    /\ boptions \in BundleOptions
    /\ blog = <<>>
    /\ bdisk = {}
    /\ bhave = {}
    /\ bverdict = Undef
    /\ braised = Undef
    /\ bconsole = <<>>
    /\ bresult = Undef

\* the stage at bpc ran to its end: the next await, or `return outputDir`
StageDone ==
    /\ bpc' = StageAfter(bpc)
    /\ bresult' = IF StageAfter(bpc) = "returned" THEN [resolved |-> OutputDir]
                  ELSE bresult
    /\ UNCHANGED <<braised, bconsole>>

\* the stage at bpc threw: control goes to the catch of line 84
StageThrew(err) ==
    /\ bpc' = "catch"
    /\ braised' = err
    /\ UNCHANGED <<bresult, bconsole, bdisk, bhave>>

\* a stage that writes `files` and obtains `data`, or fails
RunStage(name, files, data) ==
    /\ blog' = Append(blog, name)
    /\ \/ /\ bdisk' = bdisk \cup files
          /\ bhave' = bhave \cup data
          /\ StageDone
       \/ \E err \in StageErrors(name) : StageThrew(err)
    /\ UNCHANGED <<boptions, bverdict>>
    /\ UNCHANGED notBundle

\* line 36: await this._validateTheme()
Validate ==
    /\ AtStage("validate")
    /\ blog' = Append(blog, "validate")
    /\ \E err \in {Undef} \cup StageErrors("validate") :
        /\ bverdict' = err
        /\ IF ValidateTheme(err) # Undef
           THEN StageThrew(ValidateTheme(err))
           ELSE StageDone /\ UNCHANGED <<bdisk, bhave>>
    /\ UNCHANGED boptions
    /\ UNCHANGED notBundle

\* line 40: fsPromises.mkdir(outputDir, { recursive: true })
CreateOutputDir ==
    /\ AtStage("mkdir")
    /\ RunStage("mkdir", {"outputDir"}, {})

\* line 44
AssembleTemplates ==
    /\ AtStage("templates")
    /\ RunStage("templates", {}, {"templates"})

\* line 49
AssembleLang ==
    /\ AtStage("lang")
    /\ RunStage("lang", {}, {"translations"})

\* line 54
GetSchema ==
    /\ AtStage("schema")
    /\ RunStage("schema", {}, {"schema"})

\* line 58
GetConfig ==
    /\ AtStage("config")
    /\ RunStage("config", {}, {"configuration"})

\* line 61
GenerateWorkerPackageJson ==
    /\ AtStage("packageJson")
    /\ RunStage("packageJson", {"package.json"}, {})

\* line 65
InstallWorkerDependencies ==
    /\ AtStage("install")
    /\ RunStage("install", {"node_modules"}, {})

\* line 193: _generateStaticTemplates writes templates.js
GenerateStaticTemplates ==
    /\ AtStage("compile")
    /\ RunStage("compile", {"templates.js"}, {})

\* lines 196-216: the entry template is read, or the inline one stands in for
\* it; the placeholders are filled and worker.source.js is written
WriteWorkerSource ==
    /\ AtStage("writeSource")
    /\ RunStage("writeSource", {"worker.source.js"}, {})

\* line 220: _bundleWorkerWithEsbuild writes worker.js
BundleWorkerWithEsbuild ==
    /\ AtStage("link")
    /\ RunStage("link", {"worker.js"}, {})

\* line 223: fsPromises.unlink(sourceWorkerPath)
UnlinkWorkerSource ==
    /\ AtStage("unlinkSource")
    /\ blog' = Append(blog, "unlinkSource")
    /\ \/ /\ bdisk' = bdisk \ {"worker.source.js"}
          /\ UNCHANGED bhave
          /\ StageDone
       \/ \E err \in StageErrors("unlinkSource") : StageThrew(err)
    /\ UNCHANGED <<boptions, bverdict>>
    /\ UNCHANGED notBundle

\* line 75
CopyAssets ==
    /\ AtStage("assets")
    /\ RunStage("assets", {"assets"}, {})

\* line 80
GenerateWranglerConfig ==
    /\ AtStage("wrangler")
    /\ RunStage("wrangler", {"wrangler.toml"}, {})

\* lines 84-88
CatchAndRethrow ==
    /\ bpc = "catch"
    /\ bconsole' = Append(bconsole, ErrorMessage(braised))
    /\ bresult' = [rejected |-> Rethrown(braised)]
    /\ bpc' = "rejected"
    /\ UNCHANGED <<boptions, blog, bdisk, bhave, bverdict, braised>>
    /\ UNCHANGED notBundle

BundleNext ==
    \/ Validate
    \/ CreateOutputDir
    \/ AssembleTemplates
    \/ AssembleLang
    \/ GetSchema
    \/ GetConfig
    \/ GenerateWorkerPackageJson
    \/ InstallWorkerDependencies
    \/ GenerateStaticTemplates
    \/ WriteWorkerSource
    \/ BundleWorkerWithEsbuild
    \/ UnlinkWorkerSource
    \/ CopyAssets
    \/ GenerateWranglerConfig
    \/ CatchAndRethrow

(***************************************************************************)
(* WorkerBundle._assembleTemplates.  A path is a sequence of tokens: names, *)
(* the separators "/" and "\\", and the extension ".html"; the string       *)
(* operations of lines 144-156 work on these sequences.                    *)
(***************************************************************************)
MaxInternal == 2

\* String.prototype.replace(pattern, replacement) for a string pattern: the
\* first occurrence only
ReplaceFirst(s, pat, rep) ==
    LET hits == {i \in 1..(Len(s) - Len(pat) + 1) :
                    SubSeq(s, i, i + Len(pat) - 1) = pat}
    IN  IF pat = <<>> \/ hits = {} THEN s
        ELSE LET i == CHOOSE k \in hits : \A j \in hits : k <= j
             IN  SubSeq(s, 1, i - 1) \o rep \o SubSeq(s, i + Len(pat), Len(s))

\* .replace(/\.html$/, '')
StripHtml(s) ==
    IF s # <<>> /\ s[Len(s)] = ".html" THEN SubSeq(s, 1, Len(s) - 1) ELSE s

\* .replace(/\\/g, '/')
KeepBackslashes(s) == s

SlashesForBackslashes(s) == [i \in DOMAIN s |-> IF s[i] = "\\" THEN "/" ELSE s[i]]

\* s.split(token)[1]: what lies between the first and the second occurrence
SplitSecond(s, token) ==
    LET hits == {i \in DOMAIN s : s[i] = token}
        first == CHOOSE k \in hits : \A j \in hits : k <= j
        later == {i \in hits : i > first}
        stop == IF later = {} THEN Len(s) + 1
                ELSE CHOOSE k \in later : \A j \in later : k <= j
    IN  SubSeq(s, first + 1, stop - 1)

RECURSIVE JoinWith(_, _)
\* path.join of the segments, with the platform's separator
JoinWith(segments, sep) ==
    IF segments = <<>> THEN <<>>
    ELSE IF Len(segments) = 1 THEN <<segments[1]>>
    ELSE <<segments[1], sep>> \o JoinWith(Tail(segments), sep)

\* this.themePath and this.templatesPath (lines 24, 27)
ThemePath(sep) == <<sep, "theme">>
TemplatesPath(sep) == ThemePath(sep) \o <<sep, "templates">>

\* line 131: path.join(this.themePath, 'node_modules', lib, 'templates')
LibTemplatesPath(sep, lib) ==
    ThemePath(sep) \o <<sep, "node_modules", sep, lib, sep, "templates">>

\* the file of the template with those root-relative segments
FileUnder(dir, sep, segments) == dir \o <<sep>> \o JoinWith(segments, sep) \o <<".html">>

\* the templates a theme may hold under its root, in directory order
InternalTemplates ==
    <<  <<"pages", "home">>, <<"components", "card">>,
        <<"external", "lib", "templates", "card">> >>

\* the libraries a template may reference, as getExternalLibs (108-121) names
\* them, and the templates a library may hold
Libs == {"lib", "kit"}
LibTemplates == << <<"card">>, <<"nav", "bar">> >>

\* the external references found in one template, in the order of the matches
RefChoices == {<<>>, <<"lib">>, <<"kit", "lib">>, <<"lib", "lib">>}

Absent == [exists |-> FALSE, files |-> {}]
Present(files) == [exists |-> TRUE, files |-> files]

\* a library is not installed, or holds some first templates of LibTemplates
LibStates == {Absent} \cup {Present(1..n) : n \in 1..Len(LibTemplates)}

ThemeRoots ==
    {S \in SUBSET DOMAIN InternalTemplates : Cardinality(S) <= MaxInternal}

\* a theme: the platform's separator, the templates under its root with the
\* references each holds, and what is installed under node_modules
Themes ==
    UNION {{[sep |-> sep, internal |-> present, refs |-> refs, libs |-> libs] :
                sep \in {"/", "\\"},
                refs \in [present -> RefChoices],
                libs \in [Libs -> LibStates]} :
           present \in ThemeRoots}

RECURSIVE SortedSeq(_)
\* the members of a set of positions, in increasing order
SortedSeq(S) ==
    IF S = {} THEN <<>>
    ELSE LET m == CHOOSE k \in S : \A j \in S : k <= j
         IN  <<m>> \o SortedSeq(S \ {m})

Fulfilled(value) == [status |-> "fulfilled", value |-> List(value)]
Rejected == [status |-> "rejected", value |-> Undef]

\* recursiveReadDir(templatesPath, ['!*.html'])
ReadInternalDir(fs) ==
    LET order == SortedSeq(fs.internal)
    IN  Fulfilled([i \in DOMAIN order |->
            FileUnder(TemplatesPath(fs.sep), fs.sep, InternalTemplates[order[i]])])

\* recursiveReadDir(<theme>/node_modules/<lib>/templates, ['!*.html']): the
\* enumeration of a directory that does not exist fails
ReadLibDir(fs, lib) ==
    IF ~fs.libs[lib].exists THEN Rejected
    ELSE LET order == SortedSeq(fs.libs[lib].files)
         IN  Fulfilled([i \in DOMAIN order |->
                FileUnder(LibTemplatesPath(fs.sep, lib), fs.sep,
                          LibTemplates[order[i]])])

RECURSIVE Flat(_)
\* Array.prototype.flat
Flat(ss) == IF ss = <<>> THEN <<>> ELSE Head(ss) \o Flat(Tail(ss))

\* line 123: Array.from(new Set(arr.flat())), first occurrences kept in order
RemoveDuplicates(arr) ==
    LET flat == Flat(arr)
    IN  SelectSeq([i \in DOMAIN flat |-> [at |-> i, lib |-> flat[i]]],
                  LAMBDA e : \A j \in 1..(e.at - 1) : flat[j] # e.lib)

\* lines 144-149
InternalPartial(sep, file) ==
    SlashesForBackslashes(
        StripHtml(ReplaceFirst(file, TemplatesPath(sep) \o <<sep>>, <<>>)))

\* lines 153-156
ExternalPartial(file) ==
    SlashesForBackslashes(
        <<"external">> \o StripHtml(SplitSecond(file, "node_modules")))

\* lines 151-161: the reduce over the settled library enumerations; a settled
\* entry without a value makes externalTemplates.map throw
ExternalPartialsOf(settledLibs) ==
    IF \E i \in DOMAIN settledLibs : settledLibs[i].value = Undef
    THEN Undef
    ELSE List(Flat([i \in DOMAIN settledLibs |->
                [k \in DOMAIN settledLibs[i].value.v |->
                    ExternalPartial(settledLibs[i].value.v[k])]]))

\* what templateAssembler.assembleAndBundle yields for one partial
AssemblyOf(partial) == [assembled |-> partial]

TmplStart ==
    /\ tpc = "readInternal"
    /\ tfs \in Themes
    /\ tinternalList = <<>>
    /\ texternalLibs = <<>>
    /\ tsettled = <<>>
    /\ tallPartials = <<>>
    /\ tresults = <<>>
    /\ tlast = 0
    /\ tret = Undef
    /\ tthrown = Undef

\* line 105
ReadInternalTemplates ==
    /\ tpc = "readInternal"
    /\ tinternalList' = ReadInternalDir(tfs).value.v
    /\ tpc' = "scan"
    /\ UNCHANGED <<tfs, texternalLibs, tsettled, tallPartials, tresults, tlast, tret, tthrown>>
    /\ UNCHANGED notTmpl

\* lines 108-126: every template is scanned, the library names are merged
ScanExternalLibs ==
    /\ tpc = "scan"
    /\ LET order == SortedSeq(tfs.internal)
           found == RemoveDuplicates([i \in DOMAIN order |-> tfs.refs[order[i]]])
       IN  texternalLibs' = [i \in DOMAIN found |-> found[i].lib]
    /\ tpc' = "enumerate"
    /\ UNCHANGED <<tfs, tinternalList, tsettled, tallPartials, tresults, tlast, tret, tthrown>>
    /\ UNCHANGED notTmpl

\* lines 128-140: Promise.allSettled over the root and every library
EnumerateAll ==
    /\ tpc = "enumerate"
    /\ tsettled' = <<ReadInternalDir(tfs)>>
                      \o [i \in DOMAIN texternalLibs |-> ReadLibDir(tfs, texternalLibs[i])]
    /\ tpc' = "partials"
    /\ UNCHANGED <<tfs, tinternalList, texternalLibs, tallPartials, tresults, tlast, tret, tthrown>>
    /\ UNCHANGED notTmpl

\* lines 142-163
BuildPartialList ==
    /\ tpc = "partials"
    /\ LET internalTemplates == Head(tsettled).value.v
           internalPartials == [i \in DOMAIN internalTemplates |->
                                   InternalPartial(tfs.sep, internalTemplates[i])]
           externalPartials == ExternalPartialsOf(Tail(tsettled))
       IN  IF externalPartials = Undef
           THEN /\ tthrown' = TypeErrorOf("Cannot read properties of undefined")
                /\ tpc' = "rejected"
                /\ UNCHANGED <<tallPartials, tresults>>
           ELSE /\ tallPartials' = externalPartials.v \o internalPartials
                /\ tresults' = [i \in 1..(Len(externalPartials.v) + Len(internalPartials))
                                    |-> Undef]
                /\ tpc' = "assemble"
                /\ UNCHANGED tthrown
    /\ UNCHANGED <<tfs, tinternalList, texternalLibs, tsettled, tlast, tret>>
    /\ UNCHANGED notTmpl

\* an async.map that files each result in the order the assemblies finish
CollectAsFinished(results, index, value) ==
    LET free == {k \in DOMAIN results : results[k] = Undef}
    IN  [results EXCEPT ![CHOOSE k \in free : \A j \in free : k <= j] = value]

\* async.map: the result of an item goes to the index of the item
CollectAtIndex(results, index, value) == [results EXCEPT ![index] = value]

\* lines 165-168: async.map runs the assemblies together; they finish in any
\* order, and the first failure rejects the whole
AssembleAndBundle ==
    /\ tpc = "assemble"
    /\ \E i \in DOMAIN tresults :
        /\ tresults[i] = Undef
        /\ \/ /\ tresults' = CollectAtIndex(tresults, i, AssemblyOf(tallPartials[i]))
              /\ tlast' = i
              /\ UNCHANGED <<tpc, tthrown>>
           \/ /\ tthrown' = [name |-> "Error", message |-> "assembly failed",
                             options |-> <<>>]
              /\ tpc' = "rejected"
              /\ UNCHANGED <<tresults, tlast>>
    /\ UNCHANGED <<tfs, tinternalList, texternalLibs, tsettled, tallPartials, tret>>
    /\ UNCHANGED notTmpl

\* lines 170-175: a later index overwrites an earlier one of the same name
BuildTemplateMap ==
    /\ tpc = "assemble"
    /\ \A i \in DOMAIN tresults : tresults[i] # Undef
    /\ tret' = [t |-> "map",
                v |-> [p \in Range(tallPartials) |->
                        LET at == {i \in DOMAIN tallPartials : tallPartials[i] = p}
                        IN  tresults[CHOOSE k \in at : \A j \in at : j <= k]]]
    /\ tpc' = "returned"
    /\ UNCHANGED <<tfs, tinternalList, texternalLibs, tsettled, tallPartials,
                   tresults, tlast, tthrown>>
    /\ UNCHANGED notTmpl

TmplNext ==
    \/ ReadInternalTemplates
    \/ ScanExternalLibs
    \/ EnumerateAll
    \/ BuildPartialList
    \/ AssembleAndBundle
    \/ BuildTemplateMap

(***************************************************************************)
(* The module that the static-helpers plugin loads in place of             *)
(* helpers/thirdParty.js (part_000, 486-609): a table of group modules, an  *)
(* allow-list per group, and two nested loops that fill exportedHelpers.   *)
(***************************************************************************)
Whitelist ==
    << [name |-> "array",
        include |-> <<"after", "arrayify", "before", "eachIndex", "filter", "first",
                      "forEach", "inArray", "isArray", "last", "lengthEqual", "map",
                      "some", "sort", "sortBy", "withAfter", "withBefore", "withFirst",
                      "withLast", "withSort">>],
       [name |-> "collection",
        include |-> <<"isEmpty", "iterate", "length">>],
       [name |-> "comparison",
        include |-> <<"and", "gt", "gte", "has", "eq", "ifEven", "ifNth", "ifOdd",
                      "is", "isnt", "lt", "lte", "neither", "unlessEq", "unlessGt",
                      "unlessLt", "unlessGteq", "unlessLteq">>],
       [name |-> "html",
        include |-> <<"ellipsis", "sanitize", "ul", "ol", "thumbnailImage">>],
       [name |-> "inflection",
        include |-> <<"inflect", "ordinalize">>],
       [name |-> "markdown",
        include |-> <<"markdown">>],
       [name |-> "math",
        include |-> <<"add", "subtract", "divide", "multiply", "floor", "ceil",
                      "round", "sum", "avg">>],
       [name |-> "number",
        include |-> <<"addCommas", "phoneNumber", "random", "toAbbr", "toExponential",
                      "toFixed", "toFloat", "toInt", "toPrecision">>],
       [name |-> "object",
        include |-> <<"extend", "forIn", "forOwn", "toPath", "hasOwn", "isObject",
                      "merge", "JSONparse", "JSONstringify">>],
       [name |-> "string",
        include |-> <<"camelcase", "capitalize", "capitalizeAll", "center", "chop",
                      "dashcase", "dotcase", "hyphenate", "isString", "lowercase",
                      "pascalcase", "pathcase", "plusify", "reverse", "sentence",
                      "snakecase", "split", "startsWith", "titleize", "trim",
                      "uppercase">>],
       [name |-> "url",
        include |-> <<"encodeURI", "decodeURI", "urlResolve", "urlParse",
                      "stripProtocol">>] >>

\* the keys of the modules table of lines 502-514
ModuleKeys ==
    {"array", "collection", "comparison", "html", "inflection", "markdown",
     "math", "number", "object", "string", "url"}

\* names a group module of the package may define next to the listed ones;
\* "random" is listed for number and for no other group
UnlistedNames == {"abs", "modulo", "random"}

\* the names one ./3p/<group>.js defines: the listed ones, and for one group
\* some more
GroupModule(spec, group, extras) ==
    [t |-> "object",
     names |-> Range(spec.include) \cup (IF spec.name = group THEN extras ELSE {})]

\* the modules table: group name -> the default export of ./3p/<group>.js
ModuleTables ==
    { [g \in ModuleKeys |->
        GroupModule(Whitelist[FirstIndex({i \in 1..Len(Whitelist) : Whitelist[i].name = g})],
                    group, extras)] :
      group \in ModuleKeys, extras \in SUBSET UnlistedNames }

\* modules[spec.name]: undefined for a key the table does not have
ModuleOf(modules, name) ==
    IF name \in DOMAIN modules THEN modules[name] ELSE Undef

\* a loop that walks the listed names and then one more the module defines
ListedAndOneMore(spec, module) ==
    IF module.names \ Range(spec.include) = {} THEN spec.include
    ELSE Append(spec.include, CHOOSE n \in module.names \ Range(spec.include) : TRUE)

\* const moduleWhitelist = spec.include
ModuleWhitelist(spec, module) ==
    spec.include

\* { name: name, factory: () => module[name] }: the closure keeps the group
\* module it reads from
ExportedHelper(spec, name) ==
    [name |-> name, factory |-> [module |-> spec.name, key |-> name]]

HelpersStart ==
    /\ hpc = "outer"
    /\ hmodules \in ModuleTables
    /\ hi = 1
    /\ hk = 1
    /\ hexported = <<>>
    /\ hwarned = <<>>

\* lines 584-593: the head of one turn of the outer loop
SelectGroup ==
    /\ hpc = "outer"
    /\ hi <= Len(Whitelist)
    /\ IF ~Truthy(ModuleOf(hmodules, Whitelist[hi].name))
       THEN /\ hwarned' = Append(hwarned, Whitelist[hi].name)
            /\ hi' = hi + 1
            /\ UNCHANGED <<hpc, hk>>
       ELSE /\ hpc' = "inner"
            /\ hk' = 1
            /\ UNCHANGED <<hi, hwarned>>
    /\ UNCHANGED <<hmodules, hexported>>
    /\ UNCHANGED notHelpers

\* lines 594-600: one turn of the inner loop
PushHelper ==
    /\ hpc = "inner"
    /\ hk <= Len(ModuleWhitelist(Whitelist[hi], hmodules[Whitelist[hi].name]))
    /\ hexported' = Append(hexported,
            ExportedHelper(Whitelist[hi],
                ModuleWhitelist(Whitelist[hi], hmodules[Whitelist[hi].name])[hk]))
    /\ hk' = hk + 1
    /\ UNCHANGED <<hpc, hmodules, hi, hwarned>>
    /\ UNCHANGED notHelpers

\* the inner loop is through: i++ of the outer loop
NextGroup ==
    /\ hpc = "inner"
    /\ hk > Len(ModuleWhitelist(Whitelist[hi], hmodules[Whitelist[hi].name]))
    /\ hpc' = "outer"
    /\ hi' = hi + 1
    /\ UNCHANGED <<hmodules, hk, hexported, hwarned>>
    /\ UNCHANGED notHelpers

\* line 603
ExportDefault ==
    /\ hpc = "outer"
    /\ hi > Len(Whitelist)
    /\ hpc' = "exported"
    /\ UNCHANGED <<hmodules, hi, hk, hexported, hwarned>>
    /\ UNCHANGED notHelpers

HelpersNext ==
    \/ SelectGroup
    \/ PushHelper
    \/ NextGroup
    \/ ExportDefault

(***************************************************************************)
(* WorkerBundle._bundleWorkerWithEsbuild (part_000, 298-649): esbuild walks *)
(* the imports from the entry script.  Each import specifier goes to the   *)
(* onResolve callbacks of the plugins of the build, in the order of the    *)
(* plugins list, and to the default resolution if none answers; each       *)
(* resolved module goes to the onLoad callbacks, and is read from disk if  *)
(* none answers.  The files of the helper package are the part the build   *)
(* does not control: which engine each of them imports is open.            *)
(***************************************************************************)
EntryPoint == "worker.source.js"

\* the imports of templates/worker-entry.js, lines 5-7
EntryImports ==
    {"./templates.js", "handlebars/runtime",
     "@bigcommerce/stencil-paper-handlebars/helpers.js"}

\* the import that _generateStaticTemplates writes into templates.js
TemplatesImports == {"handlebars/runtime"}

\* imports of the static helpers index (a few of lines 344-409)
StaticHelpersIndexImports ==
    {"./helpers/if.js", "./helpers/partial.js", "./helpers/thirdParty.js"}

\* imports of the static thirdParty module (a few of lines 490-500)
StaticThirdPartyImports == {"./3p/array.js", "./3p/markdown.js"}

\* the files of the helper package that are read from disk as they are
PackageFiles ==
    {"./helpers/if.js", "./helpers/partial.js", "./3p/array.js", "./3p/markdown.js"}

\* the specifiers of the full template engine
EngineSpecifiers == {"handlebars", "@bigcommerce/handlebars-v4"}

\* what is installed under the output directory: the imports of each package
\* file, and whether @bigcommerce/handlebars-v4 ships a runtime build
Installations ==
    [imports : [PackageFiles -> SUBSET EngineSpecifiers], v4runtime : BOOLEAN]

\* plugins: [...] of lines 632-640; handlebarsRuntimePlugin is commented out
Plugins == <<"static-helpers", "node-modules-polyfill", "node-globals-polyfill">>

\* the onResolve callbacks of handlebarsRuntimePlugin, lines 313-332; Undef
\* when no filter matches
HandlebarsRuntimePlugin(installed, specifier) ==
    IF specifier = "handlebars" THEN Str("handlebars/runtime")
    ELSE IF specifier = "@bigcommerce/handlebars-v4"
         THEN IF installed.v4runtime
              THEN Str("@bigcommerce/handlebars-v4/runtime")
              ELSE Str("@bigcommerce/handlebars-v4")
         ELSE Undef

\* onResolve of one plugin: only handlebars-runtime registers any
OnResolve(plugin, installed, specifier) ==
    IF plugin = "handlebars-runtime"
    THEN HandlebarsRuntimePlugin(installed, specifier)
    ELSE Undef

\* the module a specifier is linked as: the answer of the first plugin that
\* gives one, else the module the specifier names
Resolve(plugins, installed, specifier) ==
    LET answering == {i \in 1..Len(plugins) :
                        OnResolve(plugins[i], installed, specifier) # Undef}
    IN  IF answering = {} THEN specifier
        ELSE OnResolve(plugins[FirstIndex(answering)], installed, specifier).v

\* the imports of a module: onLoad of static-helpers for the two files it
\* replaces (lines 341, 487), otherwise the file as installed or generated
Load(plugins, installed, module) ==
    IF module = "@bigcommerce/stencil-paper-handlebars/helpers.js"
          /\ "static-helpers" \in Range(plugins)
    THEN StaticHelpersIndexImports
    ELSE IF module = "./helpers/thirdParty.js" /\ "static-helpers" \in Range(plugins)
    THEN StaticThirdPartyImports
    ELSE IF module = EntryPoint THEN EntryImports
    ELSE IF module = "./templates.js" THEN TemplatesImports
    ELSE IF module \in PackageFiles THEN installed.imports[module]
    ELSE {}

\* the builds of the engine that carry the compiler (compile, precompile)
ExposesCompile(module) ==
    module \in {"handlebars", "@bigcommerce/handlebars-v4"}

LinkStart ==
    /\ lpc = "start"
    /\ linstalled \in Installations
    /\ lpending = {}
    /\ llinked = {}

\* esbuild.build: entryPoints of line 614
StartBuild ==
    /\ lpc = "start"
    /\ lpc' = "linking"
    /\ llinked' = {EntryPoint}
    /\ lpending' = Load(Plugins, linstalled, EntryPoint)
    /\ UNCHANGED linstalled
    /\ UNCHANGED notLink

\* one import is resolved, its module loaded and its imports queued
ResolveAndLoad ==
    /\ lpc = "linking"
    /\ \E specifier \in lpending :
        LET module == Resolve(Plugins, linstalled, specifier)
            linked == llinked \cup {module}
        IN  /\ llinked' = linked
            /\ lpending' = (lpending \ {specifier}) \cup
                   {s \in Load(Plugins, linstalled, module) :
                        Resolve(Plugins, linstalled, s) \notin linked}
    /\ UNCHANGED <<lpc, linstalled>>
    /\ UNCHANGED notLink

\* outfile of line 616: nothing is left to resolve
WriteOutfile ==
    /\ lpc = "linking"
    /\ lpending = {}
    /\ lpc' = "written"
    /\ UNCHANGED <<linstalled, lpending, llinked>>
    /\ UNCHANGED notLink

LinkNext ==
    \/ StartBuild
    \/ ResolveAndLoad
    \/ WriteOutfile

(***************************************************************************)
(* Activation: requestToApplyVariationWithRetrys is async.retryable around *)
(* requestToApplyVariation, with times: 3 and an errorFilter that lets     *)
(* only the activation timeout through.                                    *)
(***************************************************************************)
\* a retry budget that is one attempt longer
OneMoreTime == Finite(4)

\* times: 3 of line 357
ActivationTimes == Finite(3)

\* names of errors themeApiClient.activateThemeByVariationId rejects with
\* besides the timeout
OtherErrorNames == {"Error", "TypeError", "FetchError", "AbortError", "RangeError"}

ActivationSucceeded == [kind |-> "ok", name |-> ""]
ActivationTimedOut == [kind |-> "error", name |-> "VariationActivationTimeoutError"]
ActivationFailed(name) == [kind |-> "error", name |-> name]

ActivationOutcomes ==
    {ActivationSucceeded, ActivationTimedOut}
        \cup {ActivationFailed(n) : n \in OtherErrorNames}

\* an errorFilter that asks for a retry whatever the error
RetryEveryError(err) == TRUE

\* the errorFilter of lines 349-356: is the error the activation timeout
ActivationErrorFilter(err) == err.name = "VariationActivationTimeoutError"

ActivationSessions ==
    [applyTheme : {Undef, Bool(FALSE), Bool(TRUE)},
     variationId : {Undef} \cup {Str(UuidOf(n)) : n \in VariationNames}]

ActivationStart ==
    /\ apc = "attempt"
    /\ asession \in ActivationSessions
    /\ aoutcomes = <<>>
    /\ aattempt = 1
    /\ awarnings = 0
    /\ aresult = Undef
    /\ athrown = Undef

\* one run of requestToApplyVariation (363-381) and async.retry's handling of
\* its outcome: attempt++ < times && errorFilter(err)
RequestToApplyVariation ==
    /\ apc = "attempt"
    /\ IF ~Truthy(asession.applyTheme)
       THEN /\ aresult' = asession
            /\ apc' = "done"
            /\ UNCHANGED <<aoutcomes, aattempt, awarnings, athrown>>
       ELSE \E r \in ActivationOutcomes :
            /\ aoutcomes' = Append(aoutcomes, r)
            /\ IF r.kind = "ok"
               THEN /\ aresult' = asession
                    /\ apc' = "done"
                    /\ UNCHANGED <<aattempt, awarnings, athrown>>
               ELSE LET again == LessThanTimes(aattempt, ActivationTimes)
                    IN  /\ aattempt' = aattempt + 1
                        /\ UNCHANGED aresult
                        /\ IF again /\ ActivationErrorFilter(r)
                           THEN /\ awarnings' = awarnings + 1
                                /\ apc' = "sleeping"
                                /\ UNCHANGED athrown
                           ELSE /\ athrown' = r
                                /\ apc' = "failed"
                                /\ UNCHANGED awarnings
    /\ UNCHANGED asession
    /\ UNCHANGED notActivation

\* the 1000 ms interval of line 348 elapsed
ActivationInterval ==
    /\ apc = "sleeping"
    /\ apc' = "attempt"
    /\ UNCHANGED <<asession, aoutcomes, aattempt, awarnings, aresult, athrown>>
    /\ UNCHANGED notActivation

ActivationNext ==
    \/ RequestToApplyVariation
    \/ ActivationInterval

(***************************************************************************)
(* The first steps of the push workflow: readStencilConfigFile,            *)
(* getStoreHash, getThemes, generateBundle (part_001, 24-95).  An option   *)
(* the session does not have is Undef.                                     *)
(***************************************************************************)
ErrorOf(name, message) == [name |-> name, message |-> message, options |-> <<>>]

\* err.name = '...' of the catch blocks
Tagged(err, name) == [err EXCEPT !.name = name]

\* validateOptions (24-30): the first field the options lack, as an Error
ValidateOptions(missing) ==
    IF missing = <<>> THEN Undef
    ELSE ErrorOf("Error", missing[1] \o " is required!")

\* a store URL is a scheme and a host, or a host alone, which new URL rejects
StoreUrls == {<<"https://", "store.example">>, <<"store.example">>}
ParsesAsUrl(url) == Len(url) = 2 /\ url[1] = "https://"

\* what parseJsonFile may read from the .stencil file
Configs ==
    [normalStoreUrl : {Undef} \cup {[t |-> "url", v |-> u] : u \in StoreUrls},
     accessToken : {Undef, Str("token")}]

\* the answers of the discovery call: fetch rejects, or there is a response
\* with its ok flag and a body that is not JSON or a payload with store_hash
StoreHashes == {Undef, Str(""), Str("abc123")}
Discoveries ==
    {[kind |-> "rejected", ok |-> FALSE, json |-> FALSE, store_hash |-> Undef]}
        \cup [kind : {"response"}, ok : BOOLEAN, json : BOOLEAN,
              store_hash : StoreHashes]

\* a discovery step that takes any payload
AnyStoreHash(payload) == FALSE

\* line 55: !payload.store_hash
EmptyStoreHash(payload) == ~Truthy(payload.store_hash)

\* the try block of getStoreHash (49-58): the error it throws, or Undef
DiscoveryError(d) ==
    IF d.kind = "rejected" THEN ErrorOf("FetchError", "request failed")
    ELSE IF ~d.ok THEN ErrorOf("Error", "statusText")
    ELSE IF ~d.json THEN ErrorOf("SyntaxError", "invalid json")
    ELSE IF EmptyStoreHash(d)
         THEN ErrorOf("Error", "Received empty store_hash value in the server response")
    ELSE Undef

\* lines 45-47 of getStoreHash, before its try block: the error validateOptions
\* or new URL throws, or Undef
StoreUrlError(options) ==
    IF options.config = Undef \/ options.config.normalStoreUrl = Undef
    THEN ValidateOptions(<<"config.normalStoreUrl">>)
    ELSE IF ~ParsesAsUrl(options.config.normalStoreUrl.v)
    THEN TypeErrorOf("Invalid URL")
    ELSE Undef

\* utils.getStoreHash (44-63)
GetStoreHash(options, d) ==
    IF StoreUrlError(options) # Undef
    THEN Threw(StoreUrlError(options), options)
    ELSE IF DiscoveryError(d) # Undef
    THEN Threw(Tagged(DiscoveryError(d), "StoreHashReadError"), options)
    ELSE Returned([options EXCEPT !.storeHash = d.store_hash])

StepSessions ==
    [dotStencilFilePath : {Undef, Str(".stencil")},
     bundleZipPath : {Undef, Str("saved.zip")},
     saveBundleName : {Undef, Str("mytheme")},
     config : {Undef}, storeHash : {Undef}, themes : {Undef}]

StepsStart ==
    /\ spc = "readStencilConfigFile"
    /\ ssession \in StepSessions
    /\ sobjects = <<ssession>>
    /\ sran = <<>>
    /\ sfetched = Undef
    /\ sbuilds = <<>>
    /\ sthrown = Undef

\* a step that writes its result onto the object it was given
ObjectAssign(objects, value) == [objects EXCEPT ![Len(objects)] = value]

\* `{ ...options, field }`: a new object holding the fields of options and
\* the new one
ObjectSpread(objects, value) == Append(objects, value)

\* the step returned r: go on with `next`, or stop with the error; a step
\* returns the options it was given (also what a throwing step leaves behind)
\* or a spread of them
StepOutcome(step, r, next) ==
    /\ sran' = Append(sran, step)
    /\ sobjects' = IF r.session = ssession THEN sobjects
                   ELSE ObjectSpread(sobjects, r.session)
    /\ ssession' = r.session
    /\ sthrown' = r.thrown
    /\ spc' = IF r.thrown = Undef THEN next ELSE "failed"

\* utils.readStencilConfigFile (32-42)
ReadStencilConfigFile ==
    /\ spc = "readStencilConfigFile"
    /\ IF ssession.dotStencilFilePath = Undef
       THEN StepOutcome("readStencilConfigFile",
                Threw(ValidateOptions(<<"dotStencilFilePath">>), ssession),
                "getStoreHash")
       ELSE \/ \E config \in Configs :
                StepOutcome("readStencilConfigFile",
                    Returned([ssession EXCEPT !.config = config]), "getStoreHash")
            \/ \E err \in {ErrorOf("Error", "ENOENT"), ErrorOf("SyntaxError", "bad json")} :
                StepOutcome("readStencilConfigFile",
                    Threw(Tagged(err, "StencilConfigReadError"), ssession),
                    "getStoreHash")
    /\ UNCHANGED <<sfetched, sbuilds>>
    /\ UNCHANGED notSteps

GetStoreHashStep ==
    /\ spc = "getStoreHash"
    /\ IF StoreUrlError(ssession) # Undef
       THEN /\ UNCHANGED sfetched
            /\ StepOutcome("getStoreHash", GetStoreHash(ssession, Undef), "getThemes")
       ELSE \E d \in Discoveries :
            /\ sfetched' = d
            /\ StepOutcome("getStoreHash", GetStoreHash(ssession, d), "getThemes")
    /\ UNCHANGED sbuilds
    /\ UNCHANGED notSteps

\* utils.getThemes (65-75): the remote call is awaited with no catch around it
GetThemes ==
    /\ spc = "getThemes"
    /\ \/ StepOutcome("getThemes",
              Returned([ssession EXCEPT !.themes = List(<<>>)]), "generateBundle")
       \/ \E err \in {ErrorOf("Error", "Unauthorized"), ErrorOf("FetchError", "request failed")} :
              StepOutcome("getThemes", Threw(err, ssession), "generateBundle")
    /\ UNCHANGED <<sfetched, sbuilds>>
    /\ UNCHANGED notSteps

\* lines 82-84 and the path initBundle resolves with: the bundle goes by its
\* given name into the theme directory, or by a fresh uuid into os.tmpdir()
BundleOutput(options) ==
    IF Truthy(options.saveBundleName)
    THEN Str("theme/" \o options.saveBundleName.v \o ".zip")
    ELSE Str("tmp/uuid.zip")

\* a generateBundle that builds whatever the session carries
NeverReuses(options) == FALSE

\* lines 78-80: a bundle path already in the session is returned as it is
ReusesArtifact(options) == Truthy(options.bundleZipPath)

\* how bundle.initBundle() may settle: with the path of the bundle, or rejected
InitBundleOutcomes(options) ==
    {[status |-> "fulfilled", value |-> BundleOutput(options)],
     [status |-> "rejected", value |-> ErrorOf("Error", "initBundle failed")]}

\* lines 88-94: the try block around bundle.initBundle()
AfterInitBundle(options, settled) ==
    IF settled.status = "fulfilled"
    THEN Returned([options EXCEPT !.bundleZipPath = settled.value])
    ELSE Threw(Tagged(settled.value, "BundleInitError"), options)

\* utils.generateBundle (77-95): getRawConfig is awaited before the try block
GenerateBundle ==
    /\ spc = "generateBundle"
    /\ IF ReusesArtifact(ssession)
       THEN /\ StepOutcome("generateBundle", Returned(ssession), "returned")
            /\ UNCHANGED sbuilds
       ELSE \/ /\ StepOutcome("generateBundle",
                      Threw(ErrorOf("SyntaxError", "config.json"), ssession),
                      "returned")
               /\ UNCHANGED sbuilds
            \/ \E settled \in InitBundleOutcomes(ssession) :
               /\ sbuilds' = Append(sbuilds, settled)
               /\ StepOutcome("generateBundle", AfterInitBundle(ssession, settled),
                              "returned")
    /\ UNCHANGED sfetched
    /\ UNCHANGED notSteps

StepsNext ==
    \/ ReadStencilConfigFile
    \/ GetStoreHashStep
    \/ GetThemes
    \/ GenerateBundle

(***************************************************************************)
(* Resources the build looks for and may not find: the package.json files  *)
(* of paper and paper-handlebars (855-875), the worker entry template      *)
(* (193-204) and the asset directories (755-779).                          *)
(***************************************************************************)
\* a package.json: absent, not JSON, or an object with or without a version
PackageJsons ==
    {[state |-> s, version |-> Undef] : s \in {"absent", "invalid"}}
        \cup {[state |-> "parsed", version |-> v] :
                v \in {Undef, Str(""), Str("5.4.0")}}

AssetDirectories == {"dist", "fonts", "img", "icons"}

\* lines 763 and 770-771: dist first, then the staticPaths in their order
AssetOrder == <<"dist", "fonts", "img", "icons">>

\* a disk entry: a path from the directory it is told from, and what is there
Entry(path, kind) == [path |-> path, kind |-> kind]

\* what may be at <theme>/assets/<name>: nothing, a regular file, an empty
\* directory, or a directory holding files and directories
AssetShapes == {"absent", "file", "empty", "nested"}

\* the entries of the theme's disk at and under assets/<name>
Placed(name, shape) ==
    LET at == <<"theme", "assets", name>>
    IN  IF shape = "absent" THEN {}
        ELSE IF shape = "file" THEN {Entry(at, "file")}
        ELSE IF shape = "empty" THEN {Entry(at, "dir")}
        ELSE {Entry(at, "dir"),
              Entry(at \o <<"a.bin">>, "file"),
              Entry(at \o <<"sub">>, "dir"),
              Entry(at \o <<"sub", "b.bin">>, "file"),
              Entry(at \o <<"sub", "deep">>, "dir")}

\* the theme's assets directory: the four names and a directory of sources
\* beside them
AssetDisks ==
    {UNION {Placed(name, shapes[name]) : name \in AssetDirectories}
        \cup {Entry(<<"theme", "assets", "scss">>, "dir"),
              Entry(<<"theme", "assets", "scss", "theme.scss">>, "file")} :
     shapes \in [AssetDirectories -> AssetShapes]}

\* fs.existsSync(path)
ExistsSync(disk, path) == \E e \in disk : e.path = path

\* fsPromises.stat(path).isDirectory()
IsDirectory(disk, path) == Entry(path, "dir") \in disk

\* fsPromises.readdir(path): the names directly under the directory
Readdir(disk, path) ==
    {e.path[Len(path) + 1] :
        e \in {f \in disk : /\ Len(f.path) = Len(path) + 1
                             /\ SubSeq(f.path, 1, Len(path)) = path}}

RECURSIVE CopyDirectory(_, _, _, _)
RECURSIVE CopyFiles(_, _, _, _, _)
\* _copyDirectory (781-795): the target directory is made, then every name
\* of the source is copied under the same name, a directory by recursion
CopyDirectory(disk, source, target, out) ==
    CopyFiles(disk, source, target, Readdir(disk, source),
              out \cup {Entry(target, "dir")})

\* the loop of lines 785-794 over the names still to copy
CopyFiles(disk, source, target, files, out) ==
    IF files = {} THEN out
    ELSE LET file == CHOOSE f \in files : TRUE
             sourcePath == Append(source, file)
             targetPath == Append(target, file)
         IN  CopyFiles(disk, source, target, files \ {file},
                IF IsDirectory(disk, sourcePath)
                THEN CopyDirectory(disk, sourcePath, targetPath, out)
                ELSE out \cup {Entry(targetPath, "file")})

RECURSIVE CopyAssetsFrom(_, _, _)
\* _copyAssets (755-779) from the i-th name on: a name that existsSync finds
\* goes to _copyDirectory, whose readdir rejects with ENOTDIR on a regular
\* file after the target directory was made
CopyAssetsFrom(disk, i, out) ==
    IF i > Len(AssetOrder) THEN [out |-> out, thrown |-> Undef]
    ELSE LET sourcePath == <<"theme", "assets", AssetOrder[i]>>
             targetPath == <<"out", "assets", AssetOrder[i]>>
         IN  IF ~ExistsSync(disk, sourcePath)
             THEN CopyAssetsFrom(disk, i + 1, out)
             ELSE IF ~IsDirectory(disk, sourcePath)
             THEN [out |-> out \cup {Entry(targetPath, "dir")},
                   thrown |-> ErrorOf("Error", "ENOTDIR")]
             ELSE CopyAssetsFrom(disk, i + 1,
                             CopyDirectory(disk, sourcePath, targetPath, out))

Disks ==
    [paper : PackageJsons, paperHandlebars : PackageJsons,
     workerEntry : BOOLEAN, assets : AssetDisks]

\* what fs.readFileSync and JSON.parse throw for a file, or Undef
ReadError(file) ==
    IF file.state = "absent" THEN ErrorOf("Error", "ENOENT")
    ELSE IF file.state = "invalid" THEN ErrorOf("SyntaxError", "Unexpected token")
    ELSE Undef

\* _getPaperVersion / _getPaperHandlebarsVersion (855-875): the version of the
\* file, else the fallback; `swallowed` is the error the catch block dropped
GetVersion(file, fallback) ==
    IF ReadError(file) # Undef
    THEN [value |-> Str(fallback), swallowed |-> ReadError(file)]
    ELSE [value |-> IF Truthy(file.version) THEN file.version ELSE Str(fallback),
          swallowed |-> Undef]

\* one entry of dswallowed, if the lookup dropped an error
Swallowed(resource, lookup) ==
    IF lookup.swallowed = Undef THEN <<>>
    ELSE << [resource |-> resource, error |-> lookup.swallowed,
             substitute |-> lookup.value] >>

DefaultsStart ==
    /\ dpc = "packageJson"
    /\ ddisk \in Disks
    /\ dswallowed = <<>>
    /\ ddependencies = Undef
    /\ dworkerTemplate = Undef
    /\ dcopied = {}

\* _generateWorkerPackageJson (821-845)
WritePackageJson ==
    /\ dpc = "packageJson"
    /\ LET paper == GetVersion(ddisk.paper, "^5.3.0")
           paperHandlebars == GetVersion(ddisk.paperHandlebars, "^6.4.1")
       IN  /\ ddependencies' = [paper |-> paper.value,
                                paperHandlebars |-> paperHandlebars.value]
           /\ dswallowed' = dswallowed \o Swallowed("paper/package.json", paper)
                 \o Swallowed("paper-handlebars/package.json", paperHandlebars)
    /\ dpc' = "workerScript"
    /\ UNCHANGED <<ddisk, dworkerTemplate, dcopied>>
    /\ UNCHANGED notDefaults

\* _generateWorkerScript, lines 196-204: the entry template, or the inline one
ReadWorkerTemplate ==
    /\ dpc = "workerScript"
    /\ IF ddisk.workerEntry
       THEN /\ dworkerTemplate' = Str("templates/worker-entry.js")
            /\ UNCHANGED dswallowed
       ELSE /\ dworkerTemplate' = Str("inline")
            /\ dswallowed' = Append(dswallowed,
                  [resource |-> "templates/worker-entry.js",
                   error |-> ErrorOf("Error", "ENOENT"),
                   substitute |-> Str("inline")])
    /\ dpc' = "copyAssets"
    /\ UNCHANGED <<ddisk, ddependencies, dcopied>>
    /\ UNCHANGED notDefaults

\* _copyAssets (755-779): the target assets directory is made, then the names
\* are copied in their order; an error of a copy rejects the whole
CopyAssetDirectories ==
    /\ dpc = "copyAssets"
    /\ LET r == CopyAssetsFrom(ddisk.assets, 1, {Entry(<<"out", "assets">>, "dir")})
       IN  /\ dcopied' = r.out
           /\ dpc' = IF r.thrown = Undef THEN "done" ELSE "rejected"
    /\ UNCHANGED <<ddisk, dswallowed, ddependencies, dworkerTemplate>>
    /\ UNCHANGED notDefaults

DefaultsNext ==
    \/ WritePackageJson
    \/ ReadWorkerTemplate
    \/ CopyAssetDirectories

(***************************************************************************)
(* WorkerBundle._generateStaticTemplates (part_000, 227-296).  A template  *)
(* name is a sequence of characters, so that the function name is computed *)
(* from it character by character.                                         *)
(***************************************************************************)
MaxTemplates == 2

TemplateNames ==
    {<<"p", "/", "a">>, <<"p", "_", "a">>, <<"p", "-", "a">>, <<"p", "/", "b">>}

\* template sources: an empty file, one that compiles, one that does not
Sources == {"", "{{x}}", "{{#if"}

\* the shapes of templateData: a string, an object with or without the source
\* under the template's own name, null, or something else
TemplateDatas ==
    {Str(s) : s \in Sources}
        \cup {[t |-> "object", own |-> Str(s)] : s \in Sources}
        \cup {[t |-> "object", own |-> Undef], [t |-> "null"], [t |-> "number"]}

TemplateEntries == [name : TemplateNames, data : TemplateDatas]

\* Object.entries of an object: no two entries under one name
TemplateMaps ==
    {m \in SeqsUpTo(TemplateEntries, MaxTemplates) :
        \A i, j \in DOMAIN m : i # j => m[i].name # m[j].name}

\* lines 247-260: the source to compile, or Undef when the entry is skipped
TemplateSourceOf(data) ==
    IF data.t = "str" THEN data
    ELSE IF data.t = "object"
         THEN IF Truthy(data.own) THEN data.own ELSE Undef
         ELSE Undef

\* [a-zA-Z0-9]
IsAlphaNumeric(c) == c \in {"p", "a", "b"}

\* line 263: templateName.replace(/[^a-zA-Z0-9]/g, '_')
SafeName(name) ==
    [i \in DOMAIN name |-> IF IsAlphaNumeric(name[i]) THEN name[i] ELSE "_"]

\* line 264
FunctionName(name) == <<"template_">> \o SafeName(name)

\* a compiler that takes whatever it is given
PrecompileAnything(source) == [ok |-> TRUE, spec |-> source]

\* Handlebars.default.precompile: the template spec, or a parse error
Precompile(source) ==
    IF source = "{{#if" THEN [ok |-> FALSE, spec |-> "Parse error"]
    ELSE [ok |-> TRUE, spec |-> source]

\* lines 285-290: the export mapping, one line per entry of templateExports
ExportMapping(exports) ==
    [i \in DOMAIN exports |->
        [name |-> exports[i].name, functionName |-> exports[i].functionName]]

CompileStart ==
    /\ cpc = "loop"
    /\ ctemplates \in TemplateMaps
    /\ cindex = 1
    /\ cfunctions = <<>>
    /\ cexports = <<>>
    /\ cwarned = <<>>
    /\ clogged = <<>>
    /\ cwritten = Undef
    /\ cthrown = Undef

\* one turn of the loop of lines 242-282
CompileTemplate ==
    /\ cpc = "loop"
    /\ cindex <= Len(ctemplates)
    /\ LET templateName == ctemplates[cindex].name
           templateSource == TemplateSourceOf(ctemplates[cindex].data)
       IN  IF templateSource = Undef
           THEN /\ cwarned' = Append(cwarned, templateName)
                /\ cindex' = cindex + 1
                /\ UNCHANGED <<cpc, cfunctions, cexports, clogged, cthrown>>
           ELSE LET precompiled == Precompile(templateSource.v)
                IN  IF precompiled.ok
                    THEN /\ cfunctions' = Append(cfunctions,
                                [functionName |-> FunctionName(templateName),
                                 template |-> precompiled.spec])
                         /\ cexports' = Append(cexports,
                                [name |-> templateName,
                                 functionName |-> FunctionName(templateName)])
                         /\ cindex' = cindex + 1
                         /\ UNCHANGED <<cpc, cwarned, clogged, cthrown>>
                    ELSE /\ clogged' = Append(clogged, templateName)
                         /\ cthrown' = ErrorOf("Error", precompiled.spec)
                         /\ cpc' = "rejected"
                         /\ UNCHANGED <<cindex, cfunctions, cexports, cwarned>>
    /\ UNCHANGED <<ctemplates, cwritten>>
    /\ UNCHANGED notCompile

\* lines 284-295: the export mapping is appended and templates.js written
WriteTemplatesModule ==
    /\ cpc = "loop"
    /\ cindex > Len(ctemplates)
    /\ cwritten' = List(ExportMapping(cexports))
    /\ cpc' = "written"
    /\ UNCHANGED <<ctemplates, cindex, cfunctions, cexports, cwarned, clogged, cthrown>>
    /\ UNCHANGED notCompile

CompileNext ==
    \/ CompileTemplate
    \/ WriteTemplatesModule

(***************************************************************************)
(* _generateWorkerScript, lines 206-216: four String.prototype.replace     *)
(* calls in a chain, each with a string pattern.  A text is a sequence of  *)
(* tokens; a placeholder, "$&" and "$$" are tokens of their own.           *)
(***************************************************************************)
\* templates/worker-entry.js, lines 9-13: the placeholders in their order,
\* with the text around them
WorkerTemplate ==
    <<"const TRANSLATIONS = ", "__TRANSLATIONS_DATA__",
      "; const SCHEMA = ", "__SCHEMA_DATA__",
      "; const CONFIG = ", "__CONFIG_DATA__",
      "; const API_BASE_URL = '", "__API_URL__", "';">>

\* texts that a translation, a schema label or a setting may hold
DataTexts == {<<"text">>, <<"__CONFIG_DATA__">>, <<"$&">>, <<"$$">>}

\* JSON.stringify(value, null, 2) of an object holding the text
JsonStringify(text) == <<"{">> \o text \o <<"}">>

RECURSIVE ExpandReplacement(_, _)
\* the replacement patterns of String.prototype.replace: $& is the matched
\* substring, $$ a dollar sign
ExpandReplacement(replacement, matched) ==
    IF replacement = <<>> THEN <<>>
    ELSE (IF Head(replacement) = "$&" THEN <<matched>>
          ELSE IF Head(replacement) = "$$" THEN <<"$">>
          ELSE <<Head(replacement)>>)
            \o ExpandReplacement(Tail(replacement), matched)

\* text.replace(pattern, replacement) with a string pattern: the first
\* occurrence only
StringReplace(text, pattern, replacement) ==
    LET at == FirstIndex({i \in DOMAIN text : text[i] = pattern})
    IN  IF at = 0 THEN text
        ELSE SubSeq(text, 1, at - 1)
                \o ExpandReplacement(replacement, pattern)
                \o SubSeq(text, at + 1, Len(text))

\* line 206
ApiUrlOf(options) ==
    IF Truthy(options.apiUrl) THEN options.apiUrl.v
    ELSE <<"https://stencil-on-workers.store">>

ScriptData ==
    [translations : DataTexts, schema : DataTexts, configuration : DataTexts,
     apiUrl : {Undef, List(<<"https://api.example">>), List(<<"$&">>)}]

ScriptStart ==
    /\ wpc = "translations"
    /\ wdata \in ScriptData
    /\ wscript = WorkerTemplate
    /\ wsource = Undef

\* one .replace call of the chain, and the call that follows it
ReplaceStep(at, pattern, replacement, next) ==
    /\ wpc = at
    /\ wscript' = StringReplace(wscript, pattern, replacement)
    /\ wpc' = next
    /\ UNCHANGED <<wdata, wsource>>
    /\ UNCHANGED notScript

\* line 208
ReplaceTranslations ==
    /\ wpc = "translations"
    /\ ReplaceStep("translations", "__TRANSLATIONS_DATA__",
                   JsonStringify(wdata.translations), "schema")

\* line 209
ReplaceSchema ==
    /\ wpc = "schema"
    /\ ReplaceStep("schema", "__SCHEMA_DATA__", JsonStringify(wdata.schema), "config")

\* line 210
ReplaceConfig ==
    /\ wpc = "config"
    /\ ReplaceStep("config", "__CONFIG_DATA__",
                   JsonStringify(wdata.configuration), "apiUrl")

\* line 211
ReplaceApiUrl ==
    /\ wpc = "apiUrl"
    /\ ReplaceStep("apiUrl", "__API_URL__", ApiUrlOf(wdata), "write")

\* lines 214-215: worker.source.js is written
WriteWorkerScript ==
    /\ wpc = "write"
    /\ wsource' = List(wscript)
    /\ wpc' = "written"
    /\ UNCHANGED <<wdata, wscript>>
    /\ UNCHANGED notScript

ScriptNext ==
    \/ ReplaceTranslations
    \/ ReplaceSchema
    \/ ReplaceConfig
    \/ ReplaceApiUrl
    \/ WriteWorkerScript

(***************************************************************************)
(* The worker bundle command: run() of bin/stencil-bundle-worker.js, with  *)
(* initBundle as the sequence of its awaited stages and a clock that runs  *)
(* while initBundle is awaited.                                            *)
(***************************************************************************)
\* line 18: the default of -t/--timeout, in seconds
DefaultTimeout == 60

\* the longest a run is followed, in seconds
MaxElapsed == 3

\* -d given with a value, given bare, or absent; -t absent or given
CliOptions == [dest : {Undef, Bool(TRUE), Str("out")}, timeout : {DefaultTimeout, 2}]

\* part_000, line 39
RunOutputDir ==
    IF Truthy(rcli.dest) THEN rcli.dest ELSE Str("<theme>/worker-bundle")

Line(stream, text) == [stream |-> stream, text |-> text]

\* line 52
SavedLine(bundlePath) == Line("log", <<"ok -- Worker bundle saved to: ", bundlePath.v>>)

\* line 53
WranglerHint(bundlePath) == Line("log", <<"To test locally, run: cd ", bundlePath.v>>)

\* an initBundle that hands out the output directory whatever happened
InitBundleAlwaysFulfilled(outputDir, raised) ==
    [status |-> "fulfilled", value |-> outputDir]

\* part_000, lines 83-88: `return outputDir` after the last stage, or the
\* catch block throwing the error on
InitBundleSettled(outputDir, raised) ==
    IF raised = Undef
    THEN [status |-> "fulfilled", value |-> outputDir]
    ELSE [status |-> "rejected", value |-> raised]

RunStart ==
    /\ rpc = "dest"
    /\ rcli \in CliOptions
    /\ rtheme \in [config : BOOLEAN]
    /\ rstage = 0
    /\ rbundle = Undef
    /\ relapsed = 0
    /\ rcaught = Undef
    /\ rconsole = <<>>
    /\ rexit = Undef

\* a run() that takes any -d for a destination
DestAlwaysHasValue(cli) == FALSE

\* line 30: cliOptions.dest === true, the flag given with no value
DestLacksValue(cli) == StrictEq(cli.dest, Bool(TRUE))

\* lines 30-32
CheckDest ==
    /\ rpc = "dest"
    /\ IF DestLacksValue(rcli)
       THEN /\ rcaught' = ErrorOf("Error", "You have to specify a value for -d or --dest")
            /\ rpc' = "catch"
       ELSE /\ rpc' = "configExists"
            /\ UNCHANGED rcaught
    /\ UNCHANGED <<rcli, rtheme, rstage, rbundle, relapsed, rconsole, rexit>>
    /\ UNCHANGED notRun

\* lines 34-40
CheckConfigExists ==
    /\ rpc = "configExists"
    /\ IF ~rtheme.config
       THEN /\ rcaught' = ErrorOf("Error", "You must have a config.json file")
            /\ rpc' = "catch"
       ELSE /\ rpc' = "getRawConfig"
            /\ UNCHANGED rcaught
    /\ UNCHANGED <<rcli, rtheme, rstage, rbundle, relapsed, rconsole, rexit>>
    /\ UNCHANGED notRun

\* lines 42-49: the config is read and the WorkerBundle is built with cliOptions
GetRawConfigAndConstruct ==
    /\ rpc = "getRawConfig"
    /\ \/ /\ rpc' = "initBundle"
          /\ UNCHANGED rcaught
       \/ /\ rcaught' = ErrorOf("SyntaxError", "config.json")
          /\ rpc' = "catch"
    /\ UNCHANGED <<rcli, rtheme, rstage, rbundle, relapsed, rconsole, rexit>>
    /\ UNCHANGED notRun

\* line 51 while the promise is pending: a second goes by
SecondPasses ==
    /\ rpc = "initBundle"
    /\ rbundle = Undef
    /\ relapsed < MaxElapsed
    /\ relapsed' = relapsed + 1
    /\ UNCHANGED <<rpc, rcli, rtheme, rstage, rbundle, rcaught, rconsole, rexit>>
    /\ UNCHANGED notRun

\* part_000, lines 31-89: the next awaited stage completes, the last of them
\* leading to `return outputDir`; or it throws, and the catch block prints
\* the message and throws the error on
InitBundleStage ==
    /\ rpc = "initBundle"
    /\ rbundle = Undef
    /\ LET name == InitBundleStages[rstage + 1]
       IN  \/ /\ rstage' = rstage + 1
              /\ rbundle' = IF rstage + 1 = Len(InitBundleStages)
                            THEN InitBundleSettled(RunOutputDir, Undef)
                            ELSE Undef
              /\ UNCHANGED rconsole
           \/ \E err \in StageErrors(name) :
              /\ rbundle' = InitBundleSettled(RunOutputDir, err)
              /\ rconsole' = Append(rconsole,
                                Line("error", <<"failed  -- ", ErrorMessage(err).v>>))
              /\ UNCHANGED rstage
    /\ UNCHANGED <<rpc, rcli, rtheme, relapsed, rcaught, rexit>>
    /\ UNCHANGED notRun

\* lines 51-56: the await of initBundle resumes run()
AfterInitBundleSettled ==
    /\ rpc = "initBundle"
    /\ rbundle # Undef
    /\ IF rbundle.status = "fulfilled"
       THEN /\ rconsole' = rconsole \o <<SavedLine(rbundle.value),
                                          WranglerHint(rbundle.value)>>
            /\ rpc' = "finished"
            /\ UNCHANGED rcaught
       ELSE /\ rcaught' = rbundle.value
            /\ rpc' = "catch"
            /\ UNCHANGED rconsole
    /\ UNCHANGED <<rcli, rtheme, rstage, rbundle, relapsed, rexit>>
    /\ UNCHANGED notRun

\* line 55: printCliResultErrorAndExit(err) prints the failure and exits
\* with a non-zero code
PrintCliResultErrorAndExit ==
    /\ rpc = "catch"
    /\ rconsole' = Append(rconsole, Line("error", <<"not ok -- ">>))
    /\ rexit' = 1
    /\ rpc' = "exited"
    /\ UNCHANGED <<rcli, rtheme, rstage, rbundle, relapsed, rcaught>>
    /\ UNCHANGED notRun

RunNext ==
    \/ CheckDest
    \/ CheckConfigExists
    \/ GetRawConfigAndConstruct
    \/ SecondPasses
    \/ InitBundleStage
    \/ AfterInitBundleSettled
    \/ PrintCliResultErrorAndExit

(***************************************************************************)
(* The worker's fetch handler (templates/worker-entry.js, 106-177) and     *)
(* renderTemplate (179-206).  A pathname and a content type are sequences  *)
(* of tokens.                                                              *)
(***************************************************************************)
\* pathnames of requests: assets, content, and pages to render
Pathnames ==
    {<<"/assets/", "theme", ".css">>, <<"/content/", "banner", ".PNG">>,
     <<"/assets/", "LICENSE">>, <<"/assets">>, <<"/">>, <<"/products/", "1">>}

\* MIME_TYPES, lines 77-99 (the entries the pathnames reach)
MimeTypes ==
    [ext \in {".css", ".png", ".js", ".json"} |->
        CASE ext = ".css" -> "text/css"
          [] ext = ".png" -> "image/png"
          [] ext = ".js" -> "application/javascript"
          [] ext = ".json" -> "application/json"]

\* String.prototype.toLowerCase on an extension
ToLowerCase(token) == IF token = ".PNG" THEN ".png" ELSE token

\* getMimeType (101-104): substring(lastIndexOf('.')) is the extension, or the
\* whole pathname when it holds no dot
GetMimeType(pathname) ==
    LET ext == ToLowerCase(pathname[Len(pathname)])
    IN  IF ext \in DOMAIN MimeTypes THEN MimeTypes[ext]
        ELSE "application/octet-stream"

\* String.prototype.startsWith for a prefix that is one token
StartsWith(pathname, prefix) == Len(pathname) >= 1 /\ pathname[1] = prefix

\* lines 111-112
IsExemptPath(pathname) ==
    StartsWith(pathname, "/assets/") \/ StartsWith(pathname, "/content/")

Null == [t |-> "null"]

\* what the body of an upstream response holds: text that is no JSON, or the
\* JSON of null, of an object without template_file, of a stencil context
UpstreamBodies ==
    {[parses |-> FALSE, value |-> Undef], [parses |-> TRUE, value |-> Null]}
        \cup {[parses |-> TRUE, value |-> [t |-> "object", template_file |-> f]] :
                f \in {Undef, Str(""), Str("pages/home"), Str("pages/missing")}}

UpstreamRejects ==
    [fetch |-> "rejects", status |-> 0, contentType |-> Null,
     body |-> [parses |-> FALSE, value |-> Undef]]

\* fetch rejects, or resolves with a response; headers.get gives null for a
\* header that is not there
Upstreams ==
    {UpstreamRejects}
        \cup [fetch : {"responds"}, status : {200, 404},
              contentType : {Null, List(<<"text/html">>),
                             List(<<"application/json", "; charset=utf-8">>)},
              body : UpstreamBodies]

\* the keys of TEMPLATE_FUNCTIONS (templates.js)
TemplateFunctions == {"pages/home", "pages/product"}

MakeResponse(status, contentType, body) ==
    [status |-> status, contentType |-> contentType, body |-> body]

\* the upstream's Response object as it came
ResponseOf(upstream) ==
    MakeResponse(upstream.status, upstream.contentType, upstream.body)

\* lines 143-144: apiResponse.headers.get('content-type') || '', then
\* includes('application/json')
IsJsonContentType(contentType) ==
    /\ contentType # Null
    /\ \E i \in DOMAIN contentType.v : contentType.v[i] = "application/json"

\* a catch block that lets the error out of the handler
UncaughtError(err) == [response |-> Undef, rejected |-> err]

\* lines 170-176: the catch block of fetch
CaughtError(err) ==
    [response |-> MakeResponse(500, List(<<"text/plain">>),
                               <<"Internal Server Error: ", err.message>>),
     rejected |-> Undef]

WorkerStart ==
    /\ kpc = "route"
    /\ krequest \in [pathname : Pathnames]
    /\ kupstream \in Upstreams
    /\ ktemplate \in {"returns", "throws"}
    /\ kfetched = <<>>
    /\ krendered = <<>>
    /\ kerr = Undef
    /\ kresponse = Undef
    /\ krejected = Undef

\* lines 108-138: the URL is parsed and the upstream request is sent, as it
\* is for an exempt path, with the X-BC-Json-Context header for any other
RouteRequest ==
    /\ kpc = "route"
    /\ kfetched' = Append(kfetched, [pathname |-> krequest.pathname,
                                     jsonContext |-> ~IsExemptPath(krequest.pathname)])
    /\ kpc' = IF IsExemptPath(krequest.pathname) THEN "proxy" ELSE "context"
    /\ UNCHANGED <<krequest, kupstream, ktemplate, krendered, kerr, kresponse, krejected>>
    /\ UNCHANGED notWorker

\* lines 114-128: the asset response comes back and is handed on with the
\* content type of its extension
ProxyExemptPath ==
    /\ kpc = "proxy"
    /\ IF kupstream.fetch = "rejects"
       THEN /\ kerr' = TypeErrorOf("fetch failed")
            /\ kpc' = "catch"
            /\ UNCHANGED kresponse
       ELSE /\ kresponse' = MakeResponse(kupstream.status,
                                List(<<GetMimeType(krequest.pathname)>>),
                                kupstream.body)
            /\ kpc' = "responded"
            /\ UNCHANGED kerr
    /\ UNCHANGED <<krequest, kupstream, ktemplate, kfetched, krendered, krejected>>
    /\ UNCHANGED notWorker

\* lines 140-158: the context response comes back; it is passed through when
\* it is no JSON, parsed otherwise, and answered as JSON when it names no
\* template_file
ReceiveContext ==
    /\ kpc = "context"
    /\ IF kupstream.fetch = "rejects"
       THEN /\ kerr' = TypeErrorOf("fetch failed")
            /\ kpc' = "catch"
            /\ UNCHANGED kresponse
       ELSE IF ~IsJsonContentType(kupstream.contentType)
       THEN /\ kresponse' = ResponseOf(kupstream)
            /\ kpc' = "responded"
            /\ UNCHANGED kerr
       ELSE IF ~kupstream.body.parses
       THEN /\ kerr' = ErrorOf("SyntaxError", "Unexpected token")
            /\ kpc' = "catch"
            /\ UNCHANGED kresponse
       ELSE IF kupstream.body.value = Null
       THEN /\ kerr' = TypeErrorOf("Cannot read properties of null")
            /\ kpc' = "catch"
            /\ UNCHANGED kresponse
       ELSE IF ~Truthy(kupstream.body.value.template_file)
       THEN /\ kresponse' = MakeResponse(200, List(<<"application/json">>),
                                         kupstream.body)
            /\ kpc' = "responded"
            /\ UNCHANGED kerr
       ELSE /\ kpc' = "render"
            /\ UNCHANGED <<kerr, kresponse>>
    /\ UNCHANGED <<krequest, kupstream, ktemplate, kfetched, krendered, krejected>>
    /\ UNCHANGED notWorker

\* lines 160-167 and renderTemplate (179-206): the precompiled function of
\* template_file is looked up and called
RenderTemplate ==
    /\ kpc = "render"
    /\ LET templatePath == kupstream.body.value.template_file.v
       IN  IF templatePath \notin TemplateFunctions
           THEN /\ kerr' = ErrorOf("Error", "Template not found: " \o templatePath)
                /\ kpc' = "catch"
                /\ UNCHANGED <<krendered, kresponse>>
           ELSE IF ktemplate = "throws"
           THEN /\ kerr' = ErrorOf("Error", "helper failed")
                /\ krendered' = Append(krendered, templatePath)
                /\ kpc' = "catch"
                /\ UNCHANGED kresponse
           ELSE /\ kresponse' = MakeResponse(200, List(<<"text/html;charset=UTF-8">>),
                                             <<"html of ", templatePath>>)
                /\ krendered' = Append(krendered, templatePath)
                /\ kpc' = "responded"
                /\ UNCHANGED kerr
    /\ UNCHANGED <<krequest, kupstream, ktemplate, kfetched, krejected>>
    /\ UNCHANGED notWorker

\* lines 168-176
CatchWorkerError ==
    /\ kpc = "catch"
    /\ kresponse' = CaughtError(kerr).response
    /\ krejected' = CaughtError(kerr).rejected
    /\ kpc' = IF CaughtError(kerr).rejected = Undef THEN "responded" ELSE "rejected"
    /\ UNCHANGED <<krequest, kupstream, ktemplate, kfetched, krendered, kerr>>
    /\ UNCHANGED notWorker

WorkerNext ==
    \/ RouteRequest
    \/ ProxyExemptPath
    \/ ReceiveContext
    \/ RenderTemplate
    \/ CatchWorkerError

(***************************************************************************)
(* Specifications: one component runs, the others rest.                    *)
(***************************************************************************)
VarIdle ==
    /\ vpc = "idle"
    /\ vsession = InitialSession(Undef)
    /\ vremote = <<>>
    /\ vcalls = <<>>
    /\ vprompts = <<>>
    /\ vthrown = Undef

QuotaIdle ==
    /\ qpc = "idle"
    /\ qsession = QuotaSession(<<>>, Undef)
    /\ qcalls = <<>>
    /\ qprompts = <<>>
    /\ qthrown = Undef
    /\ qdeleted = {}

PollIdle ==
    /\ ppc = "idle"
    /\ psession = PollSession
    /\ presponses = <<>>
    /\ pattempt = 1
    /\ pprogress = <<>>
    /\ pcompleted = 0
    /\ pthrown = Undef

BundleIdle ==
    /\ bpc = "idle"
    /\ boptions = [dest |-> Undef, apiUrl |-> Undef]
    /\ blog = <<>>
    /\ bdisk = {}
    /\ bhave = {}
    /\ bverdict = Undef
    /\ braised = Undef
    /\ bconsole = <<>>
    /\ bresult = Undef

TmplIdle ==
    /\ tpc = "idle"
    /\ tfs = [sep |-> "/", internal |-> {},
              refs |-> <<>>,
              libs |-> [l \in Libs |-> Absent]]
    /\ tinternalList = <<>>
    /\ texternalLibs = <<>>
    /\ tsettled = <<>>
    /\ tallPartials = <<>>
    /\ tresults = <<>>
    /\ tlast = 0
    /\ tret = Undef
    /\ tthrown = Undef

HelpersIdle ==
    /\ hpc = "idle"
    /\ hmodules = <<>>
    /\ hi = 1
    /\ hk = 1
    /\ hexported = <<>>
    /\ hwarned = <<>>

LinkIdle ==
    /\ lpc = "idle"
    /\ linstalled = [imports |-> [f \in PackageFiles |-> {}], v4runtime |-> FALSE]
    /\ lpending = {}
    /\ llinked = {}

ActivationIdle ==
    /\ apc = "idle"
    /\ asession = [applyTheme |-> Undef, variationId |-> Undef]
    /\ aoutcomes = <<>>
    /\ aattempt = 1
    /\ awarnings = 0
    /\ aresult = Undef
    /\ athrown = Undef

StepsIdle ==
    /\ spc = "idle"
    /\ sobjects = <<>>
    /\ ssession = [dotStencilFilePath |-> Undef, bundleZipPath |-> Undef,
                   saveBundleName |-> Undef,
                   config |-> Undef, storeHash |-> Undef, themes |-> Undef]
    /\ sran = <<>>
    /\ sfetched = Undef
    /\ sbuilds = <<>>
    /\ sthrown = Undef

DefaultsIdle ==
    /\ dpc = "idle"
    /\ ddisk = [paper |-> [state |-> "absent", version |-> Undef],
                paperHandlebars |-> [state |-> "absent", version |-> Undef],
                workerEntry |-> FALSE, assets |-> {}]
    /\ dswallowed = <<>>
    /\ ddependencies = Undef
    /\ dworkerTemplate = Undef
    /\ dcopied = {}

CompileIdle ==
    /\ cpc = "idle"
    /\ ctemplates = <<>>
    /\ cindex = 1
    /\ cfunctions = <<>>
    /\ cexports = <<>>
    /\ cwarned = <<>>
    /\ clogged = <<>>
    /\ cwritten = Undef
    /\ cthrown = Undef

ScriptIdle ==
    /\ wpc = "idle"
    /\ wdata = [translations |-> <<>>, schema |-> <<>>, configuration |-> <<>>,
                apiUrl |-> Undef]
    /\ wscript = <<>>
    /\ wsource = Undef

RunIdle ==
    /\ rpc = "idle"
    /\ rcli = [dest |-> Undef, timeout |-> DefaultTimeout]
    /\ rtheme = [config |-> FALSE]
    /\ rstage = 0
    /\ rbundle = Undef
    /\ relapsed = 0
    /\ rcaught = Undef
    /\ rconsole = <<>>
    /\ rexit = Undef

WorkerIdle ==
    /\ kpc = "idle"
    /\ krequest = [pathname |-> <<>>]
    /\ kupstream = UpstreamRejects
    /\ ktemplate = "returns"
    /\ kfetched = <<>>
    /\ krendered = <<>>
    /\ kerr = Undef
    /\ kresponse = Undef
    /\ krejected = Undef

VarInit == VarStart /\ QuotaIdle /\ PollIdle /\ BundleIdle /\ TmplIdle /\ HelpersIdle /\ LinkIdle /\ ActivationIdle /\ StepsIdle /\ DefaultsIdle /\ CompileIdle /\ ScriptIdle /\ RunIdle /\ WorkerIdle
SpecVariation == VarInit /\ [][VarNext]_vars

QuotaInit == QuotaStart /\ VarIdle /\ PollIdle /\ BundleIdle /\ TmplIdle /\ HelpersIdle /\ LinkIdle /\ ActivationIdle /\ StepsIdle /\ DefaultsIdle /\ CompileIdle /\ ScriptIdle /\ RunIdle /\ WorkerIdle
SpecQuota == QuotaInit /\ [][QuotaNext]_vars

PollInit == PollStart /\ VarIdle /\ QuotaIdle /\ BundleIdle /\ TmplIdle /\ HelpersIdle /\ LinkIdle /\ ActivationIdle /\ StepsIdle /\ DefaultsIdle /\ CompileIdle /\ ScriptIdle /\ RunIdle /\ WorkerIdle
SpecPoll == PollInit /\ [][PollNext]_vars

\* the poll with its scheduling: an awaited getJob call comes back and the
\* timer of the interval fires, so a step that can be taken is taken; the
\* remote stops answering pending after at most MaxPending such answers
SpecPollLive == PollInit /\ [][PollNext]_vars /\ WF_vars(PollNext)

BundleInit == BundleStart /\ VarIdle /\ QuotaIdle /\ PollIdle /\ TmplIdle /\ HelpersIdle /\ LinkIdle /\ ActivationIdle /\ StepsIdle /\ DefaultsIdle /\ CompileIdle /\ ScriptIdle /\ RunIdle /\ WorkerIdle
SpecBundle == BundleInit /\ [][BundleNext]_vars

TmplInit == TmplStart /\ VarIdle /\ QuotaIdle /\ PollIdle /\ BundleIdle /\ HelpersIdle /\ LinkIdle /\ ActivationIdle /\ StepsIdle /\ DefaultsIdle /\ CompileIdle /\ ScriptIdle /\ RunIdle /\ WorkerIdle
SpecTemplates == TmplInit /\ [][TmplNext]_vars

HelpersInit ==
    /\ HelpersStart
    /\ VarIdle /\ QuotaIdle /\ PollIdle /\ BundleIdle /\ TmplIdle /\ LinkIdle /\ ActivationIdle /\ StepsIdle /\ DefaultsIdle /\ CompileIdle /\ ScriptIdle /\ RunIdle /\ WorkerIdle
SpecHelpers == HelpersInit /\ [][HelpersNext]_vars

LinkInit ==
    /\ LinkStart
    /\ VarIdle /\ QuotaIdle /\ PollIdle /\ BundleIdle /\ TmplIdle /\ HelpersIdle /\ ActivationIdle /\ StepsIdle /\ DefaultsIdle /\ CompileIdle /\ ScriptIdle /\ RunIdle /\ WorkerIdle
SpecLink == LinkInit /\ [][LinkNext]_vars

ActivationInit ==
    /\ ActivationStart
    /\ VarIdle /\ QuotaIdle /\ PollIdle /\ BundleIdle /\ TmplIdle /\ HelpersIdle /\ LinkIdle /\ StepsIdle /\ DefaultsIdle /\ CompileIdle /\ ScriptIdle /\ RunIdle /\ WorkerIdle
SpecActivation == ActivationInit /\ [][ActivationNext]_vars

StepsInit ==
    /\ StepsStart
    /\ VarIdle /\ QuotaIdle /\ PollIdle /\ BundleIdle /\ TmplIdle /\ HelpersIdle /\ LinkIdle /\ ActivationIdle /\ DefaultsIdle /\ CompileIdle /\ ScriptIdle /\ RunIdle /\ WorkerIdle
SpecSteps == StepsInit /\ [][StepsNext]_vars

DefaultsInit ==
    /\ DefaultsStart
    /\ VarIdle /\ QuotaIdle /\ PollIdle /\ BundleIdle /\ TmplIdle /\ HelpersIdle /\ LinkIdle /\ ActivationIdle /\ StepsIdle /\ CompileIdle /\ ScriptIdle /\ RunIdle /\ WorkerIdle
SpecDefaults == DefaultsInit /\ [][DefaultsNext]_vars

CompileInit ==
    /\ CompileStart
    /\ VarIdle /\ QuotaIdle /\ PollIdle /\ BundleIdle /\ TmplIdle /\ HelpersIdle /\ LinkIdle /\ ActivationIdle /\ StepsIdle /\ DefaultsIdle /\ ScriptIdle /\ RunIdle /\ WorkerIdle
SpecCompile == CompileInit /\ [][CompileNext]_vars

ScriptInit ==
    /\ ScriptStart
    /\ VarIdle /\ QuotaIdle /\ PollIdle /\ BundleIdle /\ TmplIdle /\ HelpersIdle /\ LinkIdle /\ ActivationIdle /\ StepsIdle /\ DefaultsIdle /\ CompileIdle /\ RunIdle /\ WorkerIdle
SpecScript == ScriptInit /\ [][ScriptNext]_vars

RunInit ==
    /\ RunStart
    /\ VarIdle /\ QuotaIdle /\ PollIdle /\ BundleIdle /\ TmplIdle /\ HelpersIdle /\ LinkIdle /\ ActivationIdle /\ StepsIdle /\ DefaultsIdle /\ CompileIdle /\ ScriptIdle /\ WorkerIdle
SpecRun == RunInit /\ [][RunNext]_vars

WorkerInit ==
    /\ WorkerStart
    /\ VarIdle /\ QuotaIdle /\ PollIdle /\ BundleIdle /\ TmplIdle /\ HelpersIdle /\ LinkIdle /\ ActivationIdle /\ StepsIdle /\ DefaultsIdle /\ CompileIdle /\ ScriptIdle /\ RunIdle
SpecWorker == WorkerInit /\ [][WorkerNext]_vars

(***************************************************************************)
(* Properties                                                              *)
(***************************************************************************)

\* the position in `list` of the first variation of that name, or 0
IndexOfName(list, name) ==
    FirstIndex({i \in DOMAIN list : list[i].name = name})

\* getVariations made its remote call for a flag that carries a name
NameFlagLookedUp ==
    /\ vpc \in {"promptUserForVariation", "failed"}
    /\ vcalls = <<"getVariationsByThemeId">>
    /\ vsession.activate.t = "str"

(* C1: when a variation name is supplied through the activate flag and
   getVariations ran with applyTheme set, a name that equals the name of an
   available variation makes variationId that variation's id, and a name
   that equals none makes the step fail with an error listing the available
   names. *)
C1_NamedVariationSelectedOrRejected ==
    NameFlagLookedUp =>
        LET i == IndexOfName(vremote, vsession.activate)
        IN  IF i # 0
            THEN vthrown = Undef /\ vsession.variationId = vremote[i].uuid
            ELSE /\ vthrown # Undef
                 /\ vthrown.options = [k \in DOMAIN vremote |-> vremote[k].name]

\* the private, non-active themes of the session's list, by position
DeletablePositions ==
    {i \in DOMAIN qsession.themes.v :
        qsession.themes.v[i].is_private /\ ~qsession.themes.v[i].is_active}

\* those of them with the minimum updated_at
OldestPositions ==
    {i \in DeletablePositions :
        \A j \in DeletablePositions :
            qsession.themes.v[i].updated_at <= qsession.themes.v[j].updated_at}

\* promptUserToDeleteThemesIfNecessary returned on its deleteOldest path
OldestChosen ==
    /\ qpc = "deleteThemesIfNecessary"
    /\ Truthy(qsession.themeLimitReached)
    /\ Truthy(qsession.deleteOldest)

(* C2 (as amended): with themeLimitReached and deleteOldest, the single
   deletion target is the theme with the minimum updated_at among the
   private, non-active themes, and of several themes sharing that minimum
   the one encountered last in list order is chosen. *)
C2_OldestThemeLastOfTies ==
    OldestChosen =>
        \E i \in OldestPositions :
            /\ \A j \in OldestPositions : j <= i
            /\ qsession.themeIdsToDelete = List(<<qsession.themes.v[i].uuid>>)

\* the deleteOldest path ran over a list whose minimum is shared
C2_Witness ==
    OldestChosen /\ Cardinality(OldestPositions) >= 2

(* C2 (as claimed): ... of several themes sharing the minimum the one
   encountered first in list order is chosen. *)
C2_OldestThemeFirstOfTies ==
    OldestChosen =>
        \E i \in OldestPositions :
            /\ \A j \in OldestPositions : i <= j
            /\ qsession.themeIdsToDelete = List(<<qsession.themes.v[i].uuid>>)

\* the responses are k pending ones followed by one completed one
PendingThenComplete(rs) ==
    /\ rs # <<>>
    /\ rs[Len(rs)].kind = "complete"
    /\ \A i \in 1..(Len(rs) - 1) : rs[i].kind = "pending"

(* C3: for k pending responses with percentages p1..pk followed by one
   completed response, the poll reports the progress updates p1, ..., pk, 100
   in that order, makes exactly k+1 getJob calls, and then stops. *)
C3_ProgressFollowsResponses ==
    (ppc = "done" \/ PendingThenComplete(presponses)) =>
        /\ ppc = "done"
        /\ PendingThenComplete(presponses)
        /\ pprogress = [i \in DOMAIN presponses |-> presponses[i].percent]
        /\ pprogress[Len(pprogress)] = 100
        /\ pattempt = Len(presponses)
        /\ ~ENABLED PollNext

\* the example of the claim: pending(10), pending(55), complete
C3_Witness ==
    /\ ppc = "done"
    /\ presponses = <<JobPending(10), JobPending(55), JobComplete>>
    /\ pprogress = <<10, 55, 100>>


IsPrefix(s, t) == Len(s) <= Len(t) /\ s = SubSeq(t, 1, Len(s))

\* the stages of initBundle's own try block: the writing and the removal of
\* worker.source.js are steps inside the link stage's caller
MainStages(log) ==
    SelectSeq(log, LAMBDA x : x \notin {"writeSource", "unlinkSource"})

(* C8 (as amended): in every run of initBundle the stages execute in this
   order: validate, create output directory, assemble templates, assemble
   language files, fetch schema and config, generate dependency descriptor,
   install dependencies, compile, link, copy static assets, emit deployment
   descriptor; in particular the output directory is created right after
   validation, before templates, translations, schema and config are
   obtained. *)
C8_StagesInCodeOrder ==
    /\ IsPrefix(MainStages(blog),
                <<"validate", "mkdir", "templates", "lang", "schema", "config",
                  "packageJson", "install", "compile", "link", "assets",
                  "wrangler">>)
    /\ bpc = "returned" => Len(MainStages(blog)) = 12
    /\ bhave # {} => "outputDir" \in bdisk

\* a run that went through every stage and returned the output directory
C8_Witness ==
    /\ bpc = "returned"
    /\ bresult = [resolved |-> OutputDir]
    /\ blog[2] = "mkdir"
    /\ bhave = {"templates", "translations", "schema", "configuration"}

(* C8 (as claimed): the stages execute in the order validate, assemble
   templates, assemble language files, fetch schema and config, create output
   directory, generate dependency descriptor, install dependencies, compile,
   link, copy static assets, emit deployment descriptor; the output directory
   is created only after templates, translations, schema and config were
   obtained. *)
C8_StagesInClaimedOrder ==
    /\ IsPrefix(MainStages(blog),
                <<"validate", "templates", "lang", "schema", "config", "mkdir",
                  "packageJson", "install", "compile", "link", "assets",
                  "wrangler">>)
    /\ "outputDir" \in bdisk =>
            {"templates", "translations", "schema", "configuration"} \subseteq bhave

(* C9: theme validation is the first stage of initBundle and is fatal: when
   the validator reports an error no later stage runs (no output directory,
   no file written, no dependency installed) and initBundle rejects. *)
C9_ValidationFirstAndFatal ==
    /\ blog # <<>> => blog[1] = "validate"
    /\ bverdict # Undef =>
        /\ blog = <<"validate">>
        /\ bdisk = {}
        /\ bhave = {}
        /\ bpc \in {"catch", "rejected"}
        /\ bpc = "rejected" => bresult = [rejected |-> bverdict]
        /\ bpc = "catch" => ENABLED CatchAndRethrow

\* the validator reported an error and initBundle rejected
C9_Witness ==
    /\ bverdict # Undef
    /\ bpc = "rejected"
    /\ bresult = [rejected |-> bverdict]

(* C10: when any stage of initBundle fails, none of the later stages runs
   and initBundle rejects with the very error the failing stage raised. *)
C10_FailureStopsAndSurfacesUnchanged ==
    /\ braised # Undef =>
        /\ blog[Len(blog)] = braised.origin
        /\ bpc \in {"catch", "rejected"}
        /\ bpc = "rejected" => bresult = [rejected |-> braised]
        /\ bpc = "catch" => ENABLED CatchAndRethrow
    /\ bpc \in {"catch", "rejected"} => braised # Undef
    /\ bpc = "rejected" => ~ENABLED BundleNext

\* linking failed, with the output directory and the sources already written
C10_Witness ==
    /\ bpc = "rejected"
    /\ braised.origin = "link"
    /\ bresult = [rejected |-> braised]
    /\ "worker.js" \notin bdisk

\* the root-relative path of a template, extension stripped, joined by '/'
RootRelativeId(segments) == JoinWith(segments, "/")

\* a referenced library whose templates directory does not exist
MissingLibs == {l \in Range(texternalLibs) : ~tfs.libs[l].exists}

\* the identifiers the partials of a library would carry
IsPartialOfLib(partial, lib) ==
    Len(partial) >= 3 /\ SubSeq(partial, 1, 3) = <<"external", "/", lib>>

(* C4: if a template references an external library whose directory
   <theme>/node_modules/<lib>/templates does not exist, _assembleTemplates
   still completes successfully, with zero partials from that library and all
   internal partials in the map. *)
C4_MissingLibraryTolerated ==
    (MissingLibs # {} /\ tpc \in {"assemble", "returned", "rejected"}) =>
        /\ tthrown = Undef \/ tthrown.message = "assembly failed"
        /\ tpc = "returned" =>
            /\ \A f \in tfs.internal :
                    RootRelativeId(InternalTemplates[f]) \in DOMAIN tret.v
            /\ \A l \in MissingLibs : \A p \in DOMAIN tret.v : ~IsPartialOfLib(p, l)

(* C5: the list of partial identifiers built by _assembleTemplates contains
   no duplicate identifier, and every internal template file maps to exactly
   one identifier equal to its root-relative path with the .html extension
   stripped and separators normalized to '/'. *)
C5_PartialIdentifiersUnique ==
    tpc \in {"assemble", "returned"} =>
        /\ \A i, j \in DOMAIN tallPartials :
                i # j => tallPartials[i] # tallPartials[j]
        /\ \A f \in tfs.internal :
                Cardinality({i \in DOMAIN tallPartials :
                    tallPartials[i] = RootRelativeId(InternalTemplates[f])}) = 1


\* the allow-list of a group: the include list of its entry of the table
AllowList(group) ==
    UNION {Range(Whitelist[i].include) :
             i \in {j \in 1..Len(Whitelist) : Whitelist[j].name = group}}

\* the names a group module defines and the allow-list of the group omits
DefinedButUnlisted(group) ==
    hmodules[group].names \ AllowList(group)

\* exportedHelpers has an entry of this name that reads from this group
Exports(group, name) ==
    \E i \in 1..Len(hexported) :
        /\ hexported[i].name = name
        /\ hexported[i].factory.module = group

\* C6: every entry of the exported helper table carries a name of the
\* allow-list of the group it reads from, and for every group no helper that
\* the group module defines and the allow-list omits is exported.
C6_OnlyAllowListedHelpersExported ==
    hpc \in {"outer", "inner", "exported"} =>
        /\ \A i \in 1..Len(hexported) :
              hexported[i].name \in AllowList(hexported[i].factory.module)
        /\ \A group \in DOMAIN hmodules :
              \A name \in DefinedButUnlisted(group) : ~Exports(group, name)

\* the table is exported, math exports add, and the math module defines a
\* function its allow-list omits
C6_Witness ==
    /\ hpc = "exported"
    /\ Exports("math", "add")
    /\ DefinedButUnlisted("math") # {}

\* C7: no module linked into the edge artifact is a build of the template
\* engine that exposes compile; every import of 'handlebars' or of
\* '@bigcommerce/handlebars-v4' is linked as a runtime-only build.
C7_NoCompileCapableEngineLinked ==
    \A module \in llinked : ~ExposesCompile(module)

\* the outcome of the latest activateThemeByVariationId call
LastOutcome == aoutcomes[Len(aoutcomes)]

(* C11: requestToApplyVariationWithRetrys calls activateThemeByVariationId at
   most 3 times: a timeout is followed by another attempt while fewer than 3
   attempts were made, a success ends the loop with the session, and the
   third timeout is surfaced to the caller. *)
C11_AtMostThreeActivationAttempts ==
    /\ Len(aoutcomes) <= 3
    /\ aoutcomes # <<>> =>
        /\ (LastOutcome = ActivationTimedOut /\ Len(aoutcomes) < 3) =>
              /\ apc \in {"sleeping", "attempt"}
              /\ athrown = Undef
              /\ ENABLED ActivationNext
        /\ LastOutcome = ActivationSucceeded =>
              /\ apc = "done"
              /\ aresult = asession
              /\ athrown = Undef
              /\ ~ENABLED ActivationNext
        /\ (LastOutcome = ActivationTimedOut /\ Len(aoutcomes) = 3) =>
              /\ apc = "failed"
              /\ athrown = ActivationTimedOut
              /\ ~ENABLED ActivationNext

\* three timeouts in a row, and the third one surfaced
C11_Witness ==
    /\ apc = "failed"
    /\ aoutcomes = <<ActivationTimedOut, ActivationTimedOut, ActivationTimedOut>>
    /\ athrown = ActivationTimedOut

(* C12: an activation failure that is not the timeout is surfaced at once:
   it is the last call made, whatever the attempt number, and it is the
   error handed to the caller. *)
C12_OtherFailureIsFatal ==
    \A i \in 1..Len(aoutcomes) :
        (aoutcomes[i].kind = "error"
            /\ aoutcomes[i].name # "VariationActivationTimeoutError") =>
            /\ i = Len(aoutcomes)
            /\ apc = "failed"
            /\ athrown = aoutcomes[i]
            /\ ~ENABLED ActivationNext

\* a failure of another kind on the second attempt
C12_Witness ==
    /\ apc = "failed"
    /\ aoutcomes = <<ActivationTimedOut, ActivationFailed("FetchError")>>
    /\ athrown = ActivationFailed("FetchError")

\* the latest answer of getJob
LastResponse == presponses[Len(presponses)]

\* the poll handed something to its caller
PollEnded == ppc \in {"done", "failed"}

(* C13: the poll never surfaces a pending response as an error, whatever
   the number of attempts made: after a pending response it is about to call
   getJob again.  With a remote that eventually answers something other
   than pending, the poll eventually ends, and it ends with the session
   augmented by the job result when that answer is the completed job. *)
C13_PollRunsUntilJobLeavesPending ==
    /\ [](presponses # <<>> /\ LastResponse.kind = "pending" =>
            /\ ppc \in {"sleeping", "attempt"}
            /\ pthrown = Undef
            /\ pattempt = Len(presponses) + 1)
    /\ [](pthrown # Undef => pthrown.name # "JobCompletionStatusCheckPendingError")
    /\ <>PollEnded
    /\ [](presponses # <<>> /\ LastResponse.kind = "complete" =>
            /\ ppc = "done"
            /\ psession = [PollSession EXCEPT !.themeId = Str("theme-new")]
            /\ pthrown = Undef)

\* as many pending answers as the remote gives, then the completed job
C13_Witness ==
    /\ ppc = "done"
    /\ Len(presponses) = MaxPending + 1
    /\ \A i \in 1..MaxPending : presponses[i].kind = "pending"
    /\ psession.themeId = Str("theme-new")

\* the positions of qcalls that are calls of this operation
CallsOf(op) == {i \in DOMAIN qcalls : qcalls[i].op = op}

\* the deleteThemeById calls are one per id of themeIdsToDelete, in its order,
\* right after the first upload
DeletionOfEveryIdRequested ==
    LET ids == qsession.themeIdsToDelete.v
    IN  /\ CallsOf("deleteThemeById") = 2..(Len(ids) + 1)
        /\ \A i \in DOMAIN ids : qcalls[i + 1].arg = ids[i]

(* C14: when the first upload reports themeLimitReached, a deletion is
   requested for every id of themeIdsToDelete, and postTheme is called a
   second time with the same artifact path only after all of these deletions
   succeeded; when it does not, there is no deleteThemeById call and no
   second postTheme call. *)
C14_ReuploadOnlyAfterDeletions ==
    /\ Cardinality(CallsOf("postTheme")) <= 2
    /\ qpc \in {"deleteThemesIfNecessary", "uploadBundleAgainIfNecessary"} =>
          (Truthy(qsession.themeLimitReached) <=> qsession.themeIdsToDelete # Undef)
    /\ qsession.themeIdsToDelete = Undef => Len(qcalls) <= 1
    /\ (qpc = "uploadBundleAgainIfNecessary" /\ Truthy(qsession.themeLimitReached)) =>
          /\ DeletionOfEveryIdRequested
          /\ qdeleted = Range(qsession.themeIdsToDelete.v)
          /\ ENABLED UploadBundleAgainIfNecessary
    /\ CallsOf("deleteThemeById") # {} => DeletionOfEveryIdRequested
    /\ Cardinality(CallsOf("postTheme")) = 2 =>
          /\ CallsOf("postTheme") = {1, Len(qcalls)}
          /\ qcalls[Len(qcalls)].arg = qcalls[1].arg
          /\ DeletionOfEveryIdRequested
          /\ qdeleted = Range(qsession.themeIdsToDelete.v)
    /\ (qthrown # Undef /\ qthrown.name = "ThemeDeletionError") =>
          Cardinality(CallsOf("postTheme")) = 1

\* two themes deleted, then the second upload made
C14_Witness ==
    /\ qpc = "notifyUserOfThemeUploadCompletion"
    /\ Len(qcalls) = 4
    /\ CallsOf("postTheme") = {1, 4}
    /\ Cardinality(qdeleted) = 2

\* the name each step gives the errors it catches (lines 39, 60, 92) and the
\* step that gives it
StepOfTag ==
    [StencilConfigReadError |-> "readStencilConfigFile",
     StoreHashReadError |-> "getStoreHash",
     BundleInitError |-> "generateBundle"]

\* the step that ran last
LastStep == sran[Len(sran)]

(* C15: a workflow step either returns the session or throws an error that
   carries the error name of that step, a name no other step uses; no step
   fails with an error it did not name. *)
C15_EveryFailureTagged ==
    spc = "failed" =>
        /\ sthrown.name \in DOMAIN StepOfTag
        /\ StepOfTag[sthrown.name] = LastStep

\* getStoreHash made its discovery call
DiscoveryMade ==
    /\ sran # <<>>
    /\ LastStep = "getStoreHash"
    /\ sfetched # Undef

\* the discovery call erred, answered non-ok, or answered an empty store_hash
DiscoveryUnusable ==
    \/ sfetched.kind = "rejected"
    \/ ~sfetched.ok
    \/ ~sfetched.json
    \/ sfetched.store_hash \in {Undef, Str("")}

(* C16: getStoreHash fails with an error named StoreHashReadError whenever
   the discovery call errors, answers a non-ok response or answers an empty
   store_hash; otherwise it returns the session with storeHash set to the
   store_hash of the payload and nothing else changed. *)
C16_StoreHashOrStoreHashReadError ==
    DiscoveryMade =>
        IF DiscoveryUnusable
        THEN /\ spc = "failed"
             /\ sthrown.name = "StoreHashReadError"
             /\ ssession.storeHash = Undef
        ELSE /\ spc = "getThemes"
             /\ sthrown = Undef
             /\ ssession.storeHash = sfetched.store_hash
             /\ ssession.storeHash = Str("abc123")
             /\ ssession.themes = Undef

\* an ok response whose payload has an empty store_hash, and the step failed
C16_Witness ==
    /\ DiscoveryMade
    /\ sfetched.kind = "response" /\ sfetched.ok /\ sfetched.json
    /\ sfetched.store_hash = Str("")
    /\ spc = "failed"

(* C17: no step catches an error and goes on with a default in its place,
   except for an absent external library directory and an absent optional
   asset category. *)
C17_DefaultsOnlyForOptionalResources ==
    \A i \in DOMAIN dswallowed :
        dswallowed[i].resource \in {"external library directory", "asset category"}

\* the entries whose source the template engine cannot parse
Unparsable ==
    {i \in DOMAIN ctemplates :
        \/ ctemplates[i].data = Str("{{#if")
        \/ ctemplates[i].data = [t |-> "object", own |-> Str("{{#if")]}

\* the entries the loop has been at: all before cindex, and the one it
\* failed at
Visited ==
    {i \in DOMAIN ctemplates : i < cindex \/ (i = cindex /\ cpc = "rejected")}

(* C18: when precompiling a partial fails, _generateStaticTemplates logs the
   identifier of that partial and rejects; no partial after it is compiled,
   templates.js is not written, and the failure is never turned into a
   skipped partial. *)
C18_CompileFailureAborts ==
    /\ \A i \in Visited \cap Unparsable :
          /\ cpc = "rejected"
          /\ i = cindex
          /\ cthrown # Undef
          /\ clogged = <<ctemplates[i].name>>
          /\ \A k \in DOMAIN cwarned : cwarned[k] # ctemplates[i].name
    /\ cpc = "rejected" =>
          /\ cindex \in Unparsable
          /\ cwritten = Undef
          /\ \A k \in DOMAIN cexports :
                \E i \in 1..(cindex - 1) : cexports[k].name = ctemplates[i].name
          /\ Len(cfunctions) = Len(cexports)
          /\ ~ENABLED CompileNext
    /\ cwritten # Undef => Unparsable = {}

\* the second of two partials failed to compile, after the first was compiled
C18_Witness ==
    /\ cpc = "rejected"
    /\ cindex = 2
    /\ Len(ctemplates) = 2
    /\ Len(cexports) = 1
    /\ clogged = <<ctemplates[2].name>>

\* every entry is a string or an object with the source under its own name
EveryShapeAccepted ==
    \A i \in DOMAIN ctemplates :
        \/ ctemplates[i].data.t = "str"
        \/ ctemplates[i].data.t = "object" /\ ctemplates[i].data.own # Undef

(* C19: when every partial of the template map comes in one of the two
   shapes, a successful _generateStaticTemplates writes an export table whose
   keys are exactly the partial identifiers, each mapped to the function
   compiled for it. *)
C19_ExportTableCoversEveryPartial ==
    (cpc = "written" /\ EveryShapeAccepted) =>
        /\ {cwritten.v[k].name : k \in DOMAIN cwritten.v}
              = {ctemplates[i].name : i \in DOMAIN ctemplates}
        /\ \A k \in DOMAIN cwritten.v :
              cwritten.v[k].functionName = FunctionName(cwritten.v[k].name)

(* C20: no two partial identifiers of one build get the same function name
   in the generated template module. *)
C20_FunctionNamesUnique ==
    \A i, j \in DOMAIN cfunctions :
        i # j => cfunctions[i].functionName # cfunctions[j].functionName

RECURSIVE AllAtOnce(_, _)
\* every placeholder of the text replaced by its value in one pass, the
\* values taken as they are
AllAtOnce(text, values) ==
    IF text = <<>> THEN <<>>
    ELSE (IF Head(text) \in DOMAIN values THEN values[Head(text)]
          ELSE <<Head(text)>>)
            \o AllAtOnce(Tail(text), values)

(* C21: the worker script written equals the entry template with the four
   placeholders replaced simultaneously by the serialized translations,
   schema and configuration and by the API URL, whatever text these hold. *)
C21_PlaceholdersReplacedAtOnce ==
    wpc = "written" =>
        wsource.v = AllAtOnce(WorkerTemplate,
            [__TRANSLATIONS_DATA__ |-> JsonStringify(wdata.translations),
             __SCHEMA_DATA__ |-> JsonStringify(wdata.schema),
             __CONFIG_DATA__ |-> JsonStringify(wdata.configuration),
             __API_URL__ |-> ApiUrlOf(wdata)])

(* C22: the progress percentages reported during one job poll never go
   down, whatever the job-status responses are. *)
C22_ProgressNeverGoesDown ==
    \A i, j \in DOMAIN pprogress : i <= j => pprogress[i] <= pprogress[j]

\* getVariations made its remote call and returned
VariationsListed ==
    /\ vpc \in {"promptUserForVariation", "requestToApplyVariation"}
    /\ vcalls = <<"getVariationsByThemeId">>

(* C23: in getVariations, when activate is true and the remote lists a
   variation, variationId becomes the id of the first listed variation and
   no prompt for a variation follows; when activate was not given and the
   user chose to apply the theme, getVariations leaves variationId unset
   and carries the variation list in the session, and
   promptUserForVariation then asks the user. *)
C23_FirstVariationOrPrompt ==
    /\ (vsession.activate = Bool(TRUE) /\ vremote # <<>>
            /\ vcalls = <<"getVariationsByThemeId">>
            /\ vpc # "getVariations") =>
          /\ vthrown = Undef
          /\ vsession.variationId = vremote[1].uuid
          /\ "variationId" \notin Range(vprompts)
    /\ (vsession.activate = Undef /\ VariationsListed) =>
          /\ vsession.variations = [t |-> "list", v |-> vremote]
          /\ IF vpc = "promptUserForVariation"
             THEN vsession.variationId = Undef
             ELSE vprompts = <<"applyTheme", "variationId">>

C23_Witness ==
    /\ vsession.activate = Bool(TRUE)
    /\ Len(vremote) = MaxVariations
    /\ vpc = "requestToApplyVariation"
    /\ vsession.variationId = vremote[1].uuid

(* C24 as stated: a session field set by an earlier step is never removed
   and never changed to a different value by a later step. *)
C24_SetFieldsNeverChange ==
    [][\A f \in DOMAIN qsession :
            qsession[f] # Undef => qsession'[f] = qsession[f]]_vars

(* C24: through the upload and theme-limit steps a session field that is set
   is never removed, and the only set fields a later step changes are jobId
   and themeLimitReached, which uploadBundleAgainIfNecessary overwrites with
   the answer to the second upload. *)
C24_SetFieldsStaySetReuploadOverwrites ==
    [][\A f \in DOMAIN qsession :
            qsession[f] # Undef =>
                /\ qsession'[f] # Undef
                /\ qsession'[f] # qsession[f] =>
                        /\ qpc = "uploadBundleAgainIfNecessary"
                        /\ f \in {"jobId", "themeLimitReached"}]_vars

C24_Witness ==
    /\ qpc = "notifyUserOfThemeUploadCompletion"
    /\ qsession.jobId = Str("job-2")
    /\ qsession.themeLimitReached = Bool(FALSE)
    /\ qdeleted # {}

\* the own keys of ret in their order, after the forEach of lines 171-173:
\* a key stands where its first assignment put it
KeysOfRet(allPartials) ==
    SelectSeq([i \in DOMAIN allPartials |-> [at |-> i, key |-> allPartials[i]]],
              LAMBDA e : \A j \in 1..(e.at - 1) : allPartials[j] # e.key)

\* where the key stands among the keys of ret
KeyPosition(allPartials, key) ==
    LET keys == KeysOfRet(allPartials)
    IN  CHOOSE k \in DOMAIN keys : keys[k].key = key

(* C25: in the map returned by _assembleTemplates every external partial
   identifier stands before every internal partial identifier. *)
C25_ExternalKeysBeforeInternalKeys ==
    tpc = "returned" =>
        LET internalTemplates == Head(tsettled).value.v
            internalIds == {InternalPartial(tfs.sep, internalTemplates[i]) :
                                i \in DOMAIN internalTemplates}
            externalIds == Range(ExternalPartialsOf(Tail(tsettled)).v)
        IN  \A e \in externalIds : \A p \in internalIds :
                KeyPosition(tallPartials, e) < KeyPosition(tallPartials, p)

\* the same ordering, asked of identifiers that no other file shares
ExternalKeysFirstWhenIdentifiersDistinct ==
    (tpc = "returned" /\ \A i, j \in DOMAIN tallPartials :
                            i # j => tallPartials[i] # tallPartials[j]) =>
        C25_ExternalKeysBeforeInternalKeys

(* C26: generateBundle starts a build only when the session carries no
   bundleZipPath: with a path already supplied it returns the session
   unchanged and starts no build; otherwise a build that succeeds sets
   bundleZipPath to the path initBundle returned, and a build that fails
   makes the step throw BundleInitError. *)
C26_BuildOnlyWithoutArtifact ==
    [][spc = "generateBundle" =>
        IF Truthy(ssession.bundleZipPath)
        THEN /\ ssession' = ssession
             /\ sbuilds' = sbuilds
             /\ sthrown' = Undef /\ spc' = "returned"
        ELSE sbuilds' # sbuilds =>
                LET settled == sbuilds'[Len(sbuilds')]
                IN  IF settled.status = "fulfilled"
                    THEN /\ ssession' = [ssession EXCEPT
                                            !.bundleZipPath = settled.value]
                         /\ sthrown' = Undef /\ spc' = "returned"
                    ELSE /\ sthrown'.name = "BundleInitError"
                         /\ sthrown'.message = settled.value.message
                         /\ ssession' = ssession /\ spc' = "failed"]_vars

\* the step ran on a session that brought its bundle, and no build was started
C26_Witness ==
    /\ spc = "returned"
    /\ sran[Len(sran)] = "generateBundle"
    /\ ssession.bundleZipPath = Str("saved.zip")
    /\ ssession.saveBundleName = Str("mytheme")
    /\ sbuilds = <<>>

\* the names of AssetDirectories under which the theme has a directory tree
AssetTrees ==
    {name \in AssetDirectories :
        Entry(<<"theme", "assets", name>>, "dir") \in ddisk.assets}

\* the place in the output of a path of the theme: the same path from there
SamePlaceInOutput(path) == <<"out">> \o Tail(path)

(* C27: _copyAssets copies each of the trees dist, fonts, img and icons that
   exists under the theme's assets directory to the same relative place in
   the output, every directory and file of it, and skips without error every
   one of those trees that does not exist. *)
C27_ExistingTreesCopiedOthersSkipped ==
    dpc \in {"done", "rejected"} =>
        /\ dpc = "done"
        /\ \A name \in AssetDirectories :
            LET under(disk, root) ==
                    {e \in disk : /\ Len(e.path) >= 3
                                  /\ SubSeq(e.path, 1, 3) = <<root, "assets", name>>}
            IN  IF name \in AssetTrees
                THEN under(dcopied, "out") =
                        {Entry(SamePlaceInOutput(e.path), e.kind) :
                            e \in under(ddisk.assets, "theme")}
                ELSE under(dcopied, "out") = {}

\* the same, for themes in which none of the four names is a regular file
CopiedOrSkippedWhenNoNameIsAFile ==
    (\A name \in AssetDirectories :
        Entry(<<"theme", "assets", name>>, "file") \notin ddisk.assets)
    => C27_ExistingTreesCopiedOthersSkipped

(* C28: the bundle operation is subject to the timeout of -t/--timeout
   (60 seconds by default): initBundle is never still running, and never
   completes, after more seconds than the timeout have gone by. *)
C28_BundleEndsWithinTimeout ==
    rpc = "initBundle" => relapsed <= rcli.timeout

\* the 'Worker bundle saved' line was printed
SavedLinePrinted ==
    \E i \in DOMAIN rconsole :
        /\ rconsole[i].stream = "log"
        /\ rconsole[i].text[1] = "ok -- Worker bundle saved to: "

(* C29: initBundle gives a path only when every stage through the wrangler
   configuration completed; when a stage fails, linking included, initBundle
   rejects with no path, and run() does not print the 'Worker bundle saved'
   line; a printed line names the output directory of a complete run. *)
C29_PathOnlyAfterEveryStage ==
    /\ rbundle # Undef =>
        IF rbundle.status = "fulfilled"
        THEN /\ rstage = Len(InitBundleStages)
             /\ rbundle.value = RunOutputDir
        ELSE /\ rstage < Len(InitBundleStages)
             /\ rbundle.value.origin = InitBundleStages[rstage + 1]
             /\ ~SavedLinePrinted
             /\ rpc = "exited" => rexit # 0 /\ rcaught = rbundle.value
    /\ SavedLinePrinted =>
        /\ rbundle # Undef /\ rbundle.status = "fulfilled"
        /\ rstage = Len(InitBundleStages)
        /\ rconsole[1] = SavedLine(RunOutputDir)
        /\ rexit = Undef

\* linking failed and the command has exited
C29_Witness ==
    /\ rpc = "exited"
    /\ rbundle # Undef /\ rbundle.status = "rejected"
    /\ rbundle.value.origin = "link"
    /\ ~SavedLinePrinted

(* C30: an error from getJob whose name is not
   JobCompletionStatusCheckPendingError ends the poll at once: the poll
   rejects with that error, makes no further getJob call, reports no progress
   for it and does not mark the job complete. *)
C30_OtherJobErrorEndsPoll ==
    (presponses # <<>> /\ LastResponse.kind = "error") =>
        /\ ppc = "failed"
        /\ pthrown = ErrorOfResponse(LastResponse)
        /\ pthrown.name # "JobCompletionStatusCheckPendingError"
        /\ ~ENABLED PollNext
        /\ \A i \in 1..(Len(presponses) - 1) : presponses[i].kind = "pending"
        /\ pprogress = [i \in 1..(Len(presponses) - 1) |-> presponses[i].percent]
        /\ pcompleted = 0

\* two pending answers were reported, then getJob failed
C30_Witness ==
    /\ ppc = "failed"
    /\ Len(presponses) = 3
    /\ LastResponse.kind = "error"
    /\ Len(pprogress) = 2

(* C31: no workflow step modifies the session object it receives: every
   object made so far keeps its fields through every step, also through a
   step that throws, and the session a step hands on is the object it got or
   a new one. *)
C31_InputSessionNeverModified ==
    [][/\ \A a \in DOMAIN sobjects :
            a \in DOMAIN sobjects' /\ sobjects'[a] = sobjects[a]
       /\ ssession' = sobjects'[Len(sobjects')]
       /\ Len(sobjects') \in {Len(sobjects), Len(sobjects) + 1}]_vars

\* getStoreHash threw after readStencilConfigFile had made a new session
C31_Witness ==
    /\ spc = "failed"
    /\ sthrown.name = "StoreHashReadError"
    /\ Len(sobjects) = 2
    /\ sobjects[1].config = Undef
    /\ sobjects[2].config # Undef

(* C32: when applyTheme is false, getVariations, promptUserForVariation and
   requestToApplyVariation make no remote call and no prompt and return the
   session as they got it; when the activate flag is set,
   promptUserWhetherToApplyTheme sets applyTheme to true without prompting. *)
C32_NothingDoneWithoutApplyTheme ==
    vpc \notin {"idle", "promptUserWhetherToApplyTheme"} =>
        /\ ~Truthy(vsession.applyTheme) =>
            /\ vcalls = <<>>
            /\ vprompts = <<"applyTheme">>
            /\ vthrown = Undef
            /\ vsession = [InitialSession(vsession.activate) EXCEPT
                                !.applyTheme = Bool(FALSE)]
        /\ Truthy(vsession.activate) =>
            /\ vsession.applyTheme = Bool(TRUE)
            /\ "applyTheme" \notin Range(vprompts)

\* the user declined, and the three steps have run
C32_Witness ==
    /\ vpc = "notifyUserOfCompletion"
    /\ vsession.applyTheme = Bool(FALSE)
    /\ vremote # <<>>
    /\ vcalls = <<>>

\* promptUserToDeleteThemesIfNecessary ran on its deleteOldest path
DeleteOldestRan ==
    /\ qpc \notin {"idle", "uploadBundle", "promptUserToDeleteThemesIfNecessary"}
    /\ Truthy(qsession.deleteOldest)
    /\ Len(qcalls) >= 1
    /\ \/ Truthy(qsession.themeLimitReached)
       \/ \E i \in DOMAIN qcalls : i > 1 /\ qcalls[i].op = "postTheme"
    /\ ~(qpc = "failed" /\ qthrown.name = "ThemeUploadError" /\ Len(qcalls) = 1)

(* C33: with themeLimitReached and deleteOldest,
   promptUserToDeleteThemesIfNecessary returns for every theme list, a list
   with no private non-active theme included, a session whose
   themeIdsToDelete holds exactly one id, the id of a theme that is private
   and not active; no deletion of an active or non-private theme is ever
   requested. *)
C33_OneDeletableThemeChosen ==
    /\ DeleteOldestRan =>
        /\ qsession.themeIdsToDelete # Undef
        /\ Len(qsession.themeIdsToDelete.v) = 1
        /\ \E i \in DeletablePositions :
                qsession.themeIdsToDelete.v[1] = qsession.themes.v[i].uuid
    /\ \A k \in CallsOf("deleteThemeById") :
            \E i \in DeletablePositions : qcalls[k].arg = qsession.themes.v[i].uuid

\* the same, for theme lists that hold a private, non-active theme
OneDeletableThemeChosenWhenThereIsOne ==
    DeletablePositions # {} => C33_OneDeletableThemeChosen

(* C34: the assemblies of _assembleTemplates run together and may finish in
   any order; the map is built only after every one of them has finished,
   and it gives each partial identifier the result of the assembly of that
   identifier, never another's. *)
C34_EachPartialItsOwnAssembly ==
    /\ \A i \in DOMAIN tresults :
            tresults[i] # Undef => tresults[i] = AssemblyOf(tallPartials[i])
    /\ tret # Undef =>
        /\ \A i \in DOMAIN tallPartials : tresults[i] # Undef
        /\ Len(tresults) = Len(tallPartials)
        /\ DOMAIN tret.v = Range(tallPartials)
        /\ \A p \in DOMAIN tret.v : tret.v[p] = AssemblyOf(p)

\* the map was built after the assembly of the first partial finished last
C34_Witness ==
    /\ tpc = "returned"
    /\ Len(tallPartials) >= 3
    /\ tlast = 1
    /\ \A p \in DOMAIN tret.v : tret.v[p] = AssemblyOf(p)

\* a precondition of run() fails: -d without a value, or no config.json
PreconditionFails == StrictEq(rcli.dest, Bool(TRUE)) \/ ~rtheme.config

(* C35: when -d/--dest is given without a value or the theme has no
   config.json, the command never invokes initBundle: no stage runs, nothing
   is printed as saved, and the error goes to printCliResultErrorAndExit. *)
C35_NoBuildWhenPreconditionFails ==
    PreconditionFails =>
        /\ rpc \in {"dest", "configExists", "catch", "exited"}
        /\ rstage = 0 /\ rbundle = Undef /\ relapsed = 0
        /\ ~SavedLinePrinted
        /\ rpc \in {"catch", "exited"} =>
            /\ rcaught # Undef /\ rcaught.name = "Error"
            /\ rcaught.message =
                  IF StrictEq(rcli.dest, Bool(TRUE))
                  THEN "You have to specify a value for -d or --dest"
                  ELSE "You must have a config.json file"
        /\ rpc = "catch" => ENABLED PrintCliResultErrorAndExit
        /\ rpc = "exited" => rexit # 0 /\ Len(rconsole) = 1

\* the theme has no config.json, and the command has exited
C35_Witness ==
    /\ rpc = "exited"
    /\ ~rtheme.config
    /\ rcli.dest = Str("out")
    /\ rcaught.message = "You must have a config.json file"

\* _generateWorkerScript has finished, by returning or by throwing, after it
\* wrote worker.source.js
GenerateWorkerScriptFinished ==
    /\ \E i \in DOMAIN blog : blog[i] = "writeSource"
    /\ bpc \notin {"writeSource", "link", "unlinkSource"}
    /\ braised # Undef => braised.origin # "writeSource"

(* C36: worker.source.js is never left in the output directory: whenever
   _generateWorkerScript has finished, whether bundling succeeded or failed,
   the file has been removed. *)
C36_WorkerSourceRemoved ==
    GenerateWorkerScriptFinished => "worker.source.js" \notin bdisk

\* the same, for runs in which bundling and the removal both succeeded
WorkerSourceRemovedAfterBundling ==
    (GenerateWorkerScriptFinished /\ braised = Undef) => "worker.source.js" \notin bdisk

\* the handler has settled
WorkerSettled == kpc \in {"responded", "rejected"}

\* the request is for a path under /assets/ or /content/
AssetOrContentRequest == krequest.pathname[1] \in {"/assets/", "/content/"}

\* the response whose status is 500 and whose text starts 'Internal Server Error'
IsInternalServerError(response) ==
    /\ response.status = 500
    /\ response.body[1] = "Internal Server Error: "

(* C37: the fetch handler returns a Response for every request and never
   throws: a request under /assets/ or /content/ is proxied upstream without
   rendering; an upstream response that is no JSON is passed through; any
   exception while proxying or rendering, a template_file with no precompiled
   function included, gives a 500 'Internal Server Error' response. *)
C37_AlwaysAResponse ==
    /\ krejected = Undef /\ kpc # "rejected"
    /\ ~WorkerSettled => ENABLED WorkerNext
    /\ WorkerSettled =>
        /\ kresponse # Undef
        /\ Len(kfetched) = 1
        /\ AssetOrContentRequest =>
            /\ krendered = <<>>
            /\ ~kfetched[1].jsonContext
            /\ kupstream.fetch = "responds" =>
                /\ kresponse.status = kupstream.status
                /\ kresponse.body = kupstream.body
        /\ (~AssetOrContentRequest /\ kupstream.fetch = "responds"
                /\ ~(kupstream.contentType # Null
                        /\ "application/json" \in Range(kupstream.contentType.v))) =>
            /\ kresponse = ResponseOf(kupstream)
            /\ krendered = <<>>
        /\ kerr # Undef <=> IsInternalServerError(kresponse)
        /\ kupstream.fetch = "rejects" => IsInternalServerError(kresponse)
        /\ (kresponse.status = 200 /\ krendered # <<>>) =>
                krendered = <<kupstream.body.value.template_file.v>>

\* the upstream named a template that was never compiled
C37_Witness ==
    /\ kpc = "responded"
    /\ kerr # Undef
    /\ kerr.message = "Template not found: pages/missing"
    /\ IsInternalServerError(kresponse)
    /\ krendered = <<>>

====
